---- MODULE Spec2Model ----
(***************************************************************************)
(* A model of the jansson-cpp JSON library: the UTF-8 validator and string *)
(* escaper (string_utils.cpp), the value model (json_value.cpp), the       *)
(* serializer (json_serializer.cpp) and the recursive-descent parser       *)
(* (json_parser.cpp).  Text is a sequence of byte values 0..255.  The      *)
(* parser is a state machine whose control stack mirrors the C++ call      *)
(* stack; every loop iteration of the parser is one step.                  *)
(***************************************************************************)
EXTENDS Integers, Sequences, FiniteSets, TLC

VARIABLES
    v,                  \* the value built programmatically, or NoValue
    pretty_print,       \* serialize(): pretty_print argument
    indent,             \* serialize(): indent argument
    text,               \* serialize(v, pretty_print, indent)
    text2,              \* serialize(parse(text).value(), pretty_print, indent),
                        \* or v.to_string()
    input,              \* ParseContext::input
    position,           \* ParseContext::position
    ctx_error_message,  \* ParseContext::error_message
    ctx_error_position, \* ParseContext::error_position
    pc,                 \* where the program stands
    stack,              \* active parse_string / parse_array / parse_object calls
    str_result,         \* parse_raw_string: local `result`
    num_str,            \* parse_number: local `num_str`
    result,             \* parse(): local `result`, the value parse_value returned
    exc,                \* the exception in flight
    callee,             \* which entry point returned: parse or parse_with_error
    ret,                \* the Result the entry point returned
    error_message,      \* parse_with_error: out parameter
    error_position,     \* parse_with_error: out parameter
    bytes,              \* validate_utf8: the byte sequence under test
    valid,              \* validate_utf8: the verdict returned
    plain,              \* escape: the text given
    quoted,             \* escape: the text returned; unescape: the text given
    unescaped,          \* unescape: the text returned or the exception thrown
    nodes,              \* the JsonValue nodes alive, a json_t handle being an index
    last                \* the C API call made last, its arguments and outcome

vars == <<v, pretty_print, indent, text, text2, input, position,
          ctx_error_message, ctx_error_position, pc, stack, str_result,
          num_str, result, exc, callee, ret, error_message, error_position,
          bytes, valid, plain, quoted, unescaped, nodes, last>>

(***************************************************************************)
(* Bounds of the model.                                                    *)
(***************************************************************************)
MaxNodes == 3       \* nodes in a programmatically built tree
MaxElems == 2       \* elements of an array / members of an object built
MaxIndent == 2      \* largest indent width passed to serialize
MaxDepth == 2       \* deepest nesting a built tree is rendered at
MaxText == 4        \* length of the free-form number texts parsed
MaxAlloc == 6       \* bytes a std::string can hold before allocation fails
MaxBytes == 4       \* length of the byte sequences given to validate_utf8
MaxPlain == 3       \* length of the texts given to escape
MaxQuoted == 6      \* length of the texts given to unescape, between the ends
MaxHandles == 4     \* nodes created through the C API
MaxContainers == 2  \* arrays and objects among them
MaxSize == 3        \* elements of an array / members of an object of the C API
MaxValues == 3      \* nodes a caller of the value classes makes itself
MaxHeap == 6        \* nodes in all, the clones included

(***************************************************************************)
(* Characters, as the byte values the C++ literals denote.                 *)
(***************************************************************************)
NUL == 0
BS == 8
TAB == 9
LF == 10
FF == 12
CR == 13
SPACE == 32
QUOTE == 34
PLUS == 43
COMMA == 44
MINUS == 45
DOT == 46
SLASH == 47
COLON == 58
BACKSLASH == 92
LBRACKET == 91
RBRACKET == 93
LBRACE == 123
RBRACE == 125

\* the letters of the literals and escapes, by name
Lc == [a |-> 97, b |-> 98, e |-> 101, f |-> 102, l |-> 108, n |-> 110,
       r |-> 114, s |-> 115, t |-> 116, u |-> 117, x |-> 120, E |-> 69, X |-> 88]


NoValue == [type |-> "none"]

Min(a, b) == IF a < b THEN a ELSE b
Max(a, b) == IF a > b THEN a ELSE b
Abs(a) == IF a < 0 THEN -a ELSE a

RECURSIVE Pow10(_)
Pow10(k) == IF k <= 0 THEN 1 ELSE 10 * Pow10(k - 1)

RECURSIVE Pow2(_)
Pow2(k) == IF k <= 0 THEN 1 ELSE 2 * Pow2(k - 1)

\* x & y on non-negative integers
RECURSIVE BitAnd(_, _)
BitAnd(x, y) ==
    IF x = 0 \/ y = 0 THEN 0
    ELSE 2 * BitAnd(x \div 2, y \div 2) + (IF x % 2 = 1 /\ y % 2 = 1 THEN 1 ELSE 0)

\* x | y on non-negative integers
RECURSIVE BitOr(_, _)
BitOr(x, y) ==
    IF x = 0 THEN y
    ELSE IF y = 0 THEN x
    ELSE 2 * BitOr(x \div 2, y \div 2) + (IF x % 2 = 1 \/ y % 2 = 1 THEN 1 ELSE 0)

Shl(x, k) == x * Pow2(k)
Shr(x, k) == x \div Pow2(k)

RECURSIVE Repeat(_, _)
Repeat(c, k) == IF k <= 0 THEN <<>> ELSE <<c>> \o Repeat(c, k - 1)

\* all sequences over S of length exactly k / at most k
RECURSIVE SeqsOfLen(_, _)
SeqsOfLen(S, k) ==
    IF k = 0 THEN {<<>>}
    ELSE {Append(s, c) : s \in SeqsOfLen(S, k - 1), c \in S}

SeqsUpTo(S, k) == UNION {SeqsOfLen(S, j) : j \in 0..k}

(***************************************************************************)
(* string_utils.cpp: JsonString::validate_utf8                             *)
(***************************************************************************)

\* the mutant: the surrogate range is not rejected
code_point_valid_no_surrogate_check(num_bytes, code_point) ==
    CASE num_bytes = 2 -> ~(code_point < 128)
      [] num_bytes = 3 -> ~(code_point < 2048)
      [] num_bytes = 4 -> ~(code_point < 65536) /\ ~(code_point > 1114111)
      [] OTHER -> TRUE

\* lines 79-107: the checks on the decoded code point
code_point_valid(num_bytes, code_point) ==
    CASE num_bytes = 2 -> ~(code_point < 128)                  \* 0x80
      [] num_bytes = 3 -> /\ ~(code_point < 2048)              \* 0x800
                          /\ ~(code_point >= 55296 /\ code_point <= 57343)
      [] num_bytes = 4 -> /\ ~(code_point < 65536)             \* 0x10000
                          /\ ~(code_point > 1114111)           \* 0x10FFFF
      [] OTHER -> TRUE

\* lines 78-101: the code point the bytes at data[i..] decode to
decode_code_point(data, i, num_bytes) ==
    LET b(j) == data[i + j + 1] IN
    CASE num_bytes = 2 ->
            BitOr(Shl(BitAnd(b(0), 31), 6), BitAnd(b(1), 63))
      [] num_bytes = 3 ->
            BitOr(BitOr(Shl(BitAnd(b(0), 15), 12), Shl(BitAnd(b(1), 63), 6)),
                  BitAnd(b(2), 63))
      [] num_bytes = 4 ->
            BitOr(BitOr(BitOr(Shl(BitAnd(b(0), 7), 18), Shl(BitAnd(b(1), 63), 12)),
                        Shl(BitAnd(b(2), 63), 6)),
                  BitAnd(b(3), 63))
      [] OTHER -> 0

\* lines 53-63: the sequence length the leading byte announces, 0 if invalid
sequence_length(byte) ==
    IF BitAnd(byte, 224) = 192 THEN 2            \* (byte & 0xE0) == 0xC0
    ELSE IF BitAnd(byte, 240) = 224 THEN 3       \* (byte & 0xF0) == 0xE0
    ELSE IF BitAnd(byte, 248) = 240 THEN 4       \* (byte & 0xF8) == 0xF0
    ELSE 0

\* lines 43-112: the while loop, from index i (0-based)
RECURSIVE validate_utf8_from(_, _)
validate_utf8_from(data, i) ==
    IF ~(i < Len(data)) THEN TRUE
    ELSE LET byte == data[i + 1] IN
         IF BitAnd(byte, 128) = 0 THEN validate_utf8_from(data, i + 1)
         ELSE LET num_bytes == sequence_length(byte) IN
              IF num_bytes = 0 THEN FALSE
              ELSE IF i + num_bytes > Len(data) THEN FALSE
              ELSE IF \E j \in 1..(num_bytes - 1) :
                          BitAnd(data[i + j + 1], 192) # 128 THEN FALSE
              ELSE IF ~code_point_valid(num_bytes,
                                        decode_code_point(data, i, num_bytes))
                   THEN FALSE
              ELSE validate_utf8_from(data, i + num_bytes)

validate_utf8(data) == validate_utf8_from(data, 0)

(***************************************************************************)
(* string_utils.cpp: JsonString::escape                                    *)
(***************************************************************************)
HexDigit(d) == IF d < 10 THEN 48 + d ELSE 97 + (d - 10)   \* std::hex: lower case

\* lines 135-138: << std::hex << std::setw(4) << std::setfill('0') << int(c)
hex4(c) == <<HexDigit((c \div 4096) % 16), HexDigit((c \div 256) % 16),
             HexDigit((c \div 16) % 16), HexDigit(c % 16)>>

\* the mutant: the backslash is written as it stands
escape_char_backslash_unescaped(c) ==
    CASE c = QUOTE -> <<BACKSLASH, QUOTE>>
      [] c = BS -> <<BACKSLASH, Lc.b>>
      [] c = FF -> <<BACKSLASH, Lc.f>>
      [] c = LF -> <<BACKSLASH, Lc.n>>
      [] c = CR -> <<BACKSLASH, Lc.r>>
      [] c = TAB -> <<BACKSLASH, Lc.t>>
      [] OTHER -> IF c < 32 THEN <<BACKSLASH, Lc.u>> \o hex4(c) ELSE <<c>>

\* lines 124-142: the switch on one character
escape_char(c) ==
    CASE c = QUOTE -> <<BACKSLASH, QUOTE>>
      [] c = BACKSLASH -> <<BACKSLASH, BACKSLASH>>
      [] c = BS -> <<BACKSLASH, Lc.b>>
      [] c = FF -> <<BACKSLASH, Lc.f>>
      [] c = LF -> <<BACKSLASH, Lc.n>>
      [] c = CR -> <<BACKSLASH, Lc.r>>
      [] c = TAB -> <<BACKSLASH, Lc.t>>
      [] OTHER -> IF c < 32 THEN <<BACKSLASH, Lc.u>> \o hex4(c) ELSE <<c>>

RECURSIVE escape_chars(_)
escape_chars(s) ==
    IF s = <<>> THEN <<>> ELSE escape_char(Head(s)) \o escape_chars(Tail(s))

\* lines 119-146
escape(s) == <<QUOTE>> \o escape_chars(s) \o <<QUOTE>>

(***************************************************************************)
(* json_value.hpp: the six kinds of node.  A Number holds the decimal      *)
(* m * 10^e it was given (m carries the sign, m is no multiple of 10       *)
(* unless it is 0); an Object holds its members in iteration order.        *)
(***************************************************************************)
JsonNull_create == [type |-> "Null"]
JsonBoolean_create(b) == [type |-> "Boolean", value_ |-> b]

RECURSIVE normalize(_, _)
normalize(m, e) ==
    IF m = 0 THEN [m |-> 0, e |-> 0]
    ELSE IF m % 10 = 0 THEN normalize(m \div 10, e + 1)
    ELSE [m |-> m, e |-> e]

JsonNumber_create(m, e) ==
    [type |-> "Number", m |-> normalize(m, e).m, e |-> normalize(m, e).e]

\* JsonNumber::create(std::numeric_limits<double>::infinity())
JsonNumber_infinity == [type |-> "Number", m |-> 0, e |-> 0, special |-> "inf"]

\* std::isfinite on a Number's payload
isfinite(number) == "special" \notin DOMAIN number

\* json_value.cpp lines 50-58: the constructors store the bytes as given
JsonStringValue_create(s) == [type |-> "String", value_ |-> s]

JsonArray_create == [type |-> "Array", values_ |-> <<>>]
JsonObject_create == [type |-> "Object", values_ |-> <<>>]

\* the mutant: the new element goes to the front
push_front(array, value) ==
    [array EXCEPT !.values_ = <<value>> \o array.values_]

\* json_value.hpp lines 166-168
push_back(array, value) ==
    [array EXCEPT !.values_ = Append(array.values_, value)]

InsertAt(s, i, x) == SubSeq(s, 1, i) \o <<x>> \o SubSeq(s, i + 1, Len(s))

has(object, key) == \E i \in 1..Len(object.values_) : object.values_[i].key = key

IndexOf(object, key) ==
    CHOOSE i \in 1..Len(object.values_) : object.values_[i].key = key

\* the mutant: a member is added whether or not the key is there
set_without_lookup(object, key, value, slot) ==
    [object EXCEPT !.values_ =
         InsertAt(object.values_, Min(slot, Len(object.values_)),
                  [key |-> key, value |-> value])]

\* json_value.cpp lines 123-125: values_[key] = value.  An existing key keeps
\* its place; where the hash map puts a new key is unspecified: slot says.
set(object, key, value, slot) ==
    IF has(object, key)
    THEN [object EXCEPT !.values_[IndexOf(object, key)].value = value]
    ELSE [object EXCEPT !.values_ =
              InsertAt(object.values_, slot, [key |-> key, value |-> value])]

\* the places a new key may take in the iteration order
Slots(object, key) ==
    IF has(object, key) THEN {0} ELSE 0..Len(object.values_)

get(object, key) ==
    IF has(object, key) THEN object.values_[IndexOf(object, key)].value ELSE NoValue

RECURSIVE NodeCount(_)
NodeCount(x) ==
    CASE x.type = "Array" ->
            LET RECURSIVE Sum(_)
                Sum(i) == IF i = 0 THEN 0 ELSE NodeCount(x.values_[i]) + Sum(i - 1)
            IN 1 + Sum(Len(x.values_))
      [] x.type = "Object" ->
            LET RECURSIVE Sum(_)
                Sum(i) == IF i = 0 THEN 0 ELSE NodeCount(x.values_[i].value) + Sum(i - 1)
            IN 1 + Sum(Len(x.values_))
      [] OTHER -> 1

(***************************************************************************)
(* json_serializer.cpp                                                     *)
(***************************************************************************)
RECURSIVE Digits(_)
Digits(n) == IF n < 10 THEN <<48 + n>> ELSE Append(Digits(n \div 10), 48 + (n % 10))

\* os << static_cast<int64_t>(num), for an integral num inside the int64 range
format_int64(m, e) ==
    (IF m < 0 THEN <<MINUS>> ELSE <<>>) \o Digits(Abs(m)) \o
    (IF m = 0 THEN <<>> ELSE Repeat(48, e))

\* os << num with the stream's defaults: printf's %g with precision 6.
\* The mantissa is rounded to six significant digits (half away from zero
\* on the decimal given) and trailing zeros are dropped; the exponent form is
\* used when the decimal exponent X is below -4 or at least 6.
format_double(m, e) ==
    LET a == Abs(m)
        n == Len(Digits(a))
        d == Pow10(n - 6)
        q0 == IF n > 6 THEN (a \div d) + (IF 2 * (a % d) >= d THEN 1 ELSE 0) ELSE a
        carry == n > 6 /\ q0 = 1000000
        q == normalize(IF carry THEN 100000 ELSE q0, 0).m
        X == n - 1 + e + (IF carry THEN 1 ELSE 0)
        ds == Digits(q)
        k == Len(ds)
        sign == IF m < 0 THEN <<MINUS>> ELSE <<>>
    IN sign \o
       (IF X < -4 \/ X >= 6
        THEN <<ds[1]>> \o (IF k > 1 THEN <<DOT>> \o Tail(ds) ELSE <<>>) \o
             <<Lc.e, IF X < 0 THEN MINUS ELSE PLUS>> \o
             (IF Abs(X) < 10 THEN <<48>> ELSE <<>>) \o Digits(Abs(X))
        ELSE IF X >= 0
        THEN IF k <= X + 1 THEN ds \o Repeat(48, X + 1 - k)
             ELSE SubSeq(ds, 1, X + 1) \o <<DOT>> \o SubSeq(ds, X + 2, k)
        ELSE <<48, DOT>> \o Repeat(48, -X - 1) \o ds)

\* lines 17-26: std::floor(num) == num selects the integer rendering
serialize_number(value) ==
    IF value.e >= 0 THEN format_int64(value.m, value.e)
    ELSE format_double(value.m, value.e)

RECURSIVE serialize_value(_, _, _, _)

\* the mutant: the closing bracket is indented like the elements
serialize_array_closer_deep(array, pp, ind, current_indent) ==
    LET n == Len(array.values_)
        RECURSIVE Items(_)
        Items(i) ==
            IF i > n THEN <<>>
            ELSE (IF i > 1 THEN <<COMMA>> \o (IF pp THEN <<LF>> ELSE <<SPACE>>)
                  ELSE <<>>) \o
                 (IF pp THEN Repeat(SPACE, current_indent + ind) ELSE <<>>) \o
                 serialize_value(array.values_[i], pp, ind, current_indent + ind) \o
                 Items(i + 1)
    IN <<LBRACKET>> \o (IF pp THEN <<LF>> ELSE <<>>) \o Items(1) \o
       (IF pp /\ n # 0 THEN <<LF>> \o Repeat(SPACE, current_indent + ind)
        ELSE <<>>) \o
       <<RBRACKET>>

\* lines 39-71
serialize_array(array, pp, ind, current_indent) ==
    LET n == Len(array.values_)
        RECURSIVE Items(_)
        Items(i) ==
            IF i > n THEN <<>>
            ELSE (IF i > 1 THEN <<COMMA>> \o (IF pp THEN <<LF>> ELSE <<SPACE>>)
                  ELSE <<>>) \o
                 (IF pp THEN Repeat(SPACE, current_indent + ind) ELSE <<>>) \o
                 serialize_value(array.values_[i], pp, ind, current_indent + ind) \o
                 Items(i + 1)
    IN <<LBRACKET>> \o (IF pp THEN <<LF>> ELSE <<>>) \o Items(1) \o
       (IF pp /\ n # 0 THEN <<LF>> \o Repeat(SPACE, current_indent) ELSE <<>>) \o
       <<RBRACKET>>

\* lines 73-112
serialize_object(object, pp, ind, current_indent) ==
    LET n == Len(object.values_)
        RECURSIVE Items(_)
        Items(i) ==
            IF i > n THEN <<>>
            ELSE (IF i > 1 THEN <<COMMA>> \o (IF pp THEN <<LF>> ELSE <<SPACE>>)
                  ELSE <<>>) \o
                 (IF pp THEN Repeat(SPACE, current_indent + ind) ELSE <<>>) \o
                 escape(object.values_[i].key) \o
                 (IF pp THEN <<SPACE, COLON, SPACE>> ELSE <<COLON, SPACE>>) \o
                 serialize_value(object.values_[i].value, pp, ind,
                                 current_indent + ind) \o
                 Items(i + 1)
    IN <<LBRACE>> \o (IF pp THEN <<LF>> ELSE <<>>) \o Items(1) \o
       (IF pp /\ n # 0 THEN <<LF>> \o Repeat(SPACE, current_indent) ELSE <<>>) \o
       <<RBRACE>>

\* lines 9-37
serialize_value(value, pp, ind, current_indent) ==
    CASE value.type = "Null" -> <<Lc.n, Lc.u, Lc.l, Lc.l>>
      [] value.type = "Boolean" ->
            IF value.value_ THEN <<Lc.t, Lc.r, Lc.u, Lc.e>>
            ELSE <<Lc.f, Lc.a, Lc.l, Lc.s, Lc.e>>
      [] value.type = "Number" -> serialize_number(value)
      [] value.type = "String" -> escape(value.value_)
      [] value.type = "Array" -> serialize_array(value, pp, ind, current_indent)
      [] value.type = "Object" -> serialize_object(value, pp, ind, current_indent)

\* lines 120-128: serialize(value, pretty_print, indent)
serialize(value, pp, ind) == serialize_value(value, pp, ind, 0)

(***************************************************************************)
(* json_parser.cpp: the cursor                                             *)
(***************************************************************************)
IsWhitespace(c) == c = SPACE \/ c = TAB \/ c = LF \/ c = CR

\* lines 10-19: the position after the whitespace at pos
RECURSIVE skip_whitespace(_, _)
skip_whitespace(inp, pos) ==
    IF pos < Len(inp) /\ IsWhitespace(inp[pos + 1])
    THEN skip_whitespace(inp, pos + 1)
    ELSE pos

\* the mutant: peek takes the character it returns
peek_taking(inp, pos) ==
    LET p == skip_whitespace(inp, pos)
    IN IF p >= Len(inp) THEN [c |-> NUL, position |-> p]
       ELSE [c |-> inp[p + 1], position |-> p + 1]

\* lines 21-27: the character returned and the position left behind
peek(inp, pos) ==
    LET p == skip_whitespace(inp, pos)
    IN IF p >= Len(inp) THEN [c |-> NUL, position |-> p]
       ELSE [c |-> inp[p + 1], position |-> p]

\* the mutant: the character at the cursor, whitespace or not
consume_keeps_whitespace(inp, pos) ==
    IF pos >= Len(inp) THEN [c |-> NUL, position |-> pos]
    ELSE [c |-> inp[pos + 1], position |-> pos + 1]

\* lines 29-35
consume(inp, pos) ==
    LET p == skip_whitespace(inp, pos)
    IN IF p >= Len(inp) THEN [c |-> NUL, position |-> p]
       ELSE [c |-> inp[p + 1], position |-> p + 1]

\* std::isdigit on a character of the input
isdigit(c) == c >= 48 /\ c <= 57

IsHexDigit(c) == isdigit(c) \/ (c >= 97 /\ c <= 102) \/ (c >= 65 /\ c <= 70)

HexValue(c) == IF isdigit(c) THEN c - 48
               ELSE IF c >= 97 THEN c - 87 ELSE c - 55

\* the value and length of the longest run of hex digits s starts with
RECURSIVE HexRun(_, _, _)
HexRun(s, acc, n) ==
    IF s # <<>> /\ IsHexDigit(Head(s))
    THEN HexRun(Tail(s), 16 * acc + HexValue(Head(s)), n + 1)
    ELSE [value |-> acc, n |-> n]

RECURSIVE DropSpace(_)
DropSpace(s) ==
    IF s # <<>> /\ (IsWhitespace(Head(s)) \/ Head(s) = 11 \/ Head(s) = FF)
    THEN DropSpace(Tail(s)) ELSE s

\* std::stoi(hex_str, nullptr, 16), i.e. strtol: leading space, a sign, an
\* optional 0x, then hex digits up to the first other character (a NUL
\* included); no digit at all is std::invalid_argument
stoi16(hex_str) ==
    LET s0 == DropSpace(hex_str)
        signed == s0 # <<>> /\ Head(s0) \in {MINUS, PLUS}
        neg == s0 # <<>> /\ Head(s0) = MINUS
        s1 == IF signed THEN Tail(s0) ELSE s0
        prefixed == Len(s1) >= 3 /\ s1[1] = 48 /\ s1[2] \in {Lc.x, Lc.X}
                    /\ IsHexDigit(s1[3])
        s2 == IF prefixed THEN SubSeq(s1, 3, Len(s1)) ELSE s1
        run == HexRun(s2, 0, 0)
    IN [ok |-> run.n > 0, value |-> IF neg THEN -run.value ELSE run.value]

\* the mutant: one byte up to U+00FF
encode_code_point_latin1(code_point) ==
    IF code_point <= 255 THEN <<code_point>>
    ELSE IF code_point <= 2047
    THEN <<BitOr(192, BitAnd(Shr(code_point, 6), 31)),
           BitOr(128, BitAnd(code_point, 63))>>
    ELSE <<BitOr(224, BitAnd(Shr(code_point, 12), 15)),
           BitOr(128, BitAnd(Shr(code_point, 6), 63)),
           BitOr(128, BitAnd(code_point, 63))>>

\* lines 84-98: the bytes appended for code_point
encode_code_point(code_point) ==
    IF code_point <= 127 THEN <<code_point % 256>>
    ELSE IF code_point <= 2047
    THEN <<BitOr(192, BitAnd(Shr(code_point, 6), 31)),
           BitOr(128, BitAnd(code_point, 63))>>
    ELSE IF code_point <= 65535
    THEN <<BitOr(224, BitAnd(Shr(code_point, 12), 15)),
           BitOr(128, BitAnd(Shr(code_point, 6), 63)),
           BitOr(128, BitAnd(code_point, 63))>>
    ELSE IF code_point <= 1114111
    THEN <<BitOr(240, BitAnd(Shr(code_point, 18), 7)),
           BitOr(128, BitAnd(Shr(code_point, 12), 63)),
           BitOr(128, BitAnd(Shr(code_point, 6), 63)),
           BitOr(128, BitAnd(code_point, 63))>>
    ELSE <<>>

\* the value and length of the run of decimal digits s starts with
RECURSIVE DecRun(_, _, _)
DecRun(s, acc, n) ==
    IF s # <<>> /\ isdigit(Head(s))
    THEN DecRun(Tail(s), 10 * acc + (Head(s) - 48), n + 1)
    ELSE [value |-> acc, n |-> n]

\* std::stod(num_str) on the text parse_number assembled: the decimal it
\* denotes, or std::out_of_range when that is beyond a double's range
stod(str) ==
    LET signed == str # <<>> /\ Head(str) \in {MINUS, PLUS}
        neg == str # <<>> /\ Head(str) = MINUS
        s1 == IF signed THEN Tail(str) ELSE str
        ip == DecRun(s1, 0, 0)
        s2 == SubSeq(s1, ip.n + 1, Len(s1))
        dotted == s2 # <<>> /\ Head(s2) = DOT
        fp == IF dotted THEN DecRun(Tail(s2), 0, 0) ELSE [value |-> 0, n |-> 0]
        s3 == IF dotted THEN SubSeq(s2, fp.n + 2, Len(s2)) ELSE s2
        expo == s3 # <<>> /\ Head(s3) \in {Lc.e, Lc.E}
        s4 == IF expo THEN Tail(s3) ELSE <<>>
        eneg == s4 # <<>> /\ Head(s4) = MINUS
        s5 == IF s4 # <<>> /\ Head(s4) \in {MINUS, PLUS} THEN Tail(s4) ELSE s4
        ev == DecRun(s5, 0, 0).value
        mant == ip.value * Pow10(fp.n) + fp.value
        e == (IF eneg THEN -ev ELSE ev) - fp.n
        X == Len(Digits(mant)) - 1 + e
    IN [ok |-> mant = 0 \/ (X <= 308 /\ X >= -308),
        value |-> JsonNumber_create(IF neg THEN -mant ELSE mant, e)]

\* lines 37-48, repeated for each character of `expected`: the first mismatch
\* throws
RECURSIVE expect(_, _, _)
expect(inp, pos, expected) ==
    IF expected = <<>> THEN [ok |-> TRUE, position |-> pos, expected |-> NUL, c |-> NUL]
    ELSE LET k == consume(inp, pos)
         IN IF k.c # Head(expected)
            THEN [ok |-> FALSE, position |-> k.position,
                  expected |-> Head(expected), c |-> k.c]
            ELSE expect(inp, k.position, Tail(expected))

\* lines 40-44: the message expect() builds (characters shown by their codes)
expect_message(x) ==
    "Expected '" \o ToString(x.expected) \o "' but found '" \o ToString(x.c) \o "';"

(***************************************************************************)
(* json_value.cpp: equals                                                  *)
(***************************************************************************)
\* lines 41-44: std::abs(other - value_) < 1e-12, on decimals
\* A double that is no decimal (an infinity) carries the field `special`; the
\* difference of two infinities is NaN, and no comparison with NaN holds.
number_equals(a, b) ==
    LET emin == Min(a.e, b.e)
        d == Abs(a.m * Pow10(a.e - emin) - b.m * Pow10(b.e - emin))
    IN /\ isfinite(a) /\ isfinite(b)
       /\ a = b \/ d = 0 \/ (emin < -12 /\ d < Pow10(-12 - emin))

\* the mutant: two objects are not compared in size
RECURSIVE equals_unsized(_, _)
equals_unsized(a, b) ==
    CASE a.type = "Null" -> b.type = "Null"
      [] a.type = "Boolean" -> b.type = "Boolean" /\ b.value_ = a.value_
      [] a.type = "Number" -> b.type = "Number" /\ number_equals(a, b)
      [] a.type = "String" -> b.type = "String" /\ b.value_ = a.value_
      [] a.type = "Array" ->
            /\ b.type = "Array"
            /\ Len(a.values_) = Len(b.values_)
            /\ \A i \in 1..Len(a.values_) : equals_unsized(a.values_[i], b.values_[i])
      [] a.type = "Object" ->
            /\ b.type = "Object"
            /\ \A i \in 1..Len(a.values_) :
                   /\ has(b, a.values_[i].key)
                   /\ equals_unsized(a.values_[i].value, get(b, a.values_[i].key))
      [] OTHER -> FALSE

RECURSIVE equals(_, _)
equals(a, b) ==
    CASE a.type = "Null" -> b.type = "Null"
      [] a.type = "Boolean" -> b.type = "Boolean" /\ b.value_ = a.value_
      [] a.type = "Number" -> b.type = "Number" /\ number_equals(a, b)
      [] a.type = "String" -> b.type = "String" /\ b.value_ = a.value_
      [] a.type = "Array" ->
            /\ b.type = "Array"
            /\ Len(a.values_) = Len(b.values_)
            /\ \A i \in 1..Len(a.values_) : equals(a.values_[i], b.values_[i])
      [] a.type = "Object" ->
            /\ b.type = "Object"
            /\ Len(a.values_) = Len(b.values_)
            /\ \A i \in 1..Len(a.values_) :
                   /\ has(b, a.values_[i].key)
                   /\ equals(a.values_[i].value, get(b, a.values_[i].key))
      [] OTHER -> FALSE

(***************************************************************************)
(* json_error.hpp: Result<T>                                               *)
(***************************************************************************)
Result_value(value) == [has_value |-> TRUE, value |-> value, error |-> "Success"]
Result_error(ec) == [has_value |-> FALSE, value |-> NoValue, error |-> ec]
NoResult == [has_value |-> FALSE, value |-> NoValue, error |-> "none"]
NoException == [type |-> "none", what |-> ""]
NotCalled == [ok |-> FALSE, value |-> <<>>, what |-> "none"]
NoCall == [fn |-> "none"]

(***************************************************************************)
(* The values and texts the callers supply.                                *)
(***************************************************************************)
NumberValues ==
    {JsonNumber_create(0, 0), JsonNumber_create(-2, 0), JsonNumber_create(10, 0),
     JsonNumber_create(15, -1), JsonNumber_create(1234567, -7),
     JsonNumber_create(1, -7)}

StringValues ==
    {<<>>, <<Lc.a>>, <<Lc.a, SPACE, Lc.b>>, <<QUOTE>>, <<BACKSLASH>>, <<LF>>,
     <<1>>, <<195, 169>>, <<128>>}

Keys == {<<Lc.a>>, <<Lc.a, SPACE, Lc.b>>}

ChildValues ==
    {JsonNull_create, JsonBoolean_create(TRUE), JsonNumber_create(15, -1),
     JsonStringValue_create(<<Lc.a, SPACE, Lc.b>>), JsonArray_create,
     JsonObject_create}

NumberAlphabet == {MINUS, PLUS, 48, 49, DOT, Lc.e, Lc.E, SPACE}

Texts == SeqsUpTo(NumberAlphabet, MaxText)

TrailingTexts == {<<49>>, <<Lc.x>>, <<LBRACKET, RBRACKET>>, <<QUOTE, QUOTE>>}

InsertChars == {COMMA, Lc.x}

\* the code points written as \uXXXX escapes: the ends of the 1-, 2- and
\* 3-byte ranges, and the two halves of the surrogate pair of U+1F600
CodePoints == {0, 65, 127, 128, 233, 2047, 2048, 8364, 55357, 56832, 65535}

\* \uXXXX, lower or upper case
EscapeOf(code_point, upper) ==
    <<BACKSLASH, Lc.u>> \o
    [i \in 1..4 |-> LET h == hex4(code_point)[i]
                    IN IF upper /\ h >= 97 THEN h - 32 ELSE h]

\* string literals with raw whitespace between the quotes ("User 0" is the
\* one of test_parsing_large_json.cpp), and with one or two unicode escapes
StringLiterals ==
    {<<QUOTE>> \o body \o <<QUOTE>> :
        body \in {<<85, 115, 101, 114, SPACE, 48>>, <<Lc.a, TAB, Lc.b>>,
                  <<LF, Lc.a>>, <<Lc.a, CR>>, <<SPACE>>,
                  <<Lc.a, SPACE, SPACE, Lc.b>>, <<TAB, LF, CR, SPACE>>}}
    \cup {<<QUOTE>> \o EscapeOf(c, up) \o <<QUOTE>> :
             c \in CodePoints, up \in BOOLEAN}
    \cup {<<QUOTE>> \o EscapeOf(c1, FALSE) \o EscapeOf(c2, TRUE) \o <<QUOTE>> :
             c1 \in CodePoints, c2 \in CodePoints}

docVars == <<v, pretty_print, indent, text, text2>>
utfVars == <<bytes, valid>>
strVars == <<plain, quoted, unescaped>>
apiVars == <<nodes, last>>
outVars == <<callee, ret, error_message, error_position>>
ctxVars == <<input, position, ctx_error_message, ctx_error_position>>
runVars == <<pc, stack, str_result, num_str, result, exc>>

(***************************************************************************)
(* Building a value through the API (json_value.hpp, json_c_api.cpp).      *)
(***************************************************************************)
Built(value) ==
    /\ v' = value
    /\ UNCHANGED <<pretty_print, indent, text, text2, ctxVars, runVars, outVars,
                   utfVars, strVars, apiVars>>

json_null == pc = "idle" /\ v = NoValue /\ Built(JsonNull_create)

json_boolean ==
    /\ pc = "idle" /\ v = NoValue
    /\ \E b \in BOOLEAN : Built(JsonBoolean_create(b))

json_number ==
    /\ pc = "idle" /\ v = NoValue
    /\ \E n \in NumberValues : Built(n)

json_string ==
    /\ pc = "idle" /\ v = NoValue
    /\ \E s \in StringValues : Built(JsonStringValue_create(s))

json_array == pc = "idle" /\ v = NoValue /\ Built(JsonArray_create)

json_object == pc = "idle" /\ v = NoValue /\ Built(JsonObject_create)

json_array_append ==
    /\ pc = "idle" /\ v.type = "Array"
    /\ Len(v.values_) < MaxElems
    /\ \E child \in ChildValues :
          /\ NodeCount(v) + NodeCount(child) <= MaxNodes
          /\ Built(push_back(v, child))

json_object_set ==
    /\ pc = "idle" /\ v.type = "Object"
    /\ \E key \in Keys, child \in ChildValues :
          /\ has(v, key) \/ Len(v.values_) < MaxElems
          /\ NodeCount(v) + NodeCount(child) <= MaxNodes
          /\ \E slot \in Slots(v, key) : Built(set(v, key, child, slot))

\* the value built so far becomes the only element of a new array
append_to_new_array ==
    /\ pc = "idle" /\ v # NoValue
    /\ NodeCount(v) < MaxNodes
    /\ Built(push_back(JsonArray_create, v))

\* the value built so far becomes the only member of a new object
set_in_new_object ==
    /\ pc = "idle" /\ v # NoValue
    /\ NodeCount(v) < MaxNodes
    /\ \E key \in Keys : Built(set(JsonObject_create, key, v, 0))

(***************************************************************************)
(* json_value.hpp and json_value.cpp: to_string, the debug form.           *)
(***************************************************************************)
\* json_value.hpp line 76
JsonNull_to_string(value) == <<Lc.n, Lc.u, Lc.l, Lc.l>>

\* json_value.hpp line 94
JsonBoolean_to_string(value) ==
    IF value.value_ THEN <<Lc.t, Lc.r, Lc.u, Lc.e>>
    ELSE <<Lc.f, Lc.a, Lc.l, Lc.s, Lc.e>>

\* json_value.cpp lines 29-39: std::to_string of the int64 for an integral
\* value, else oss << value_
JsonNumber_to_string(value) ==
    IF value.e >= 0 THEN format_int64(value.m, value.e)
    ELSE format_double(value.m, value.e)

\* json_value.cpp lines 60-62
JsonStringValue_to_string(value) == escape(value.value_)

RECURSIVE to_string(_)

\* the mutant: no space after the comma
JsonArray_to_string_tight(array) ==
    LET n == Len(array.values_)
        RECURSIVE Items(_)
        Items(i) ==
            IF i > n THEN <<>>
            ELSE (IF i > 1 THEN <<COMMA>> ELSE <<>>) \o
                 to_string(array.values_[i]) \o Items(i + 1)
    IN <<LBRACKET>> \o Items(1) \o <<RBRACKET>>

\* json_value.cpp lines 80-93
JsonArray_to_string(array) ==
    LET n == Len(array.values_)
        RECURSIVE Items(_)
        Items(i) ==
            IF i > n THEN <<>>
            ELSE (IF i > 1 THEN <<COMMA, SPACE>> ELSE <<>>) \o
                 to_string(array.values_[i]) \o Items(i + 1)
    IN <<LBRACKET>> \o Items(1) \o <<RBRACKET>>

\* json_value.cpp lines 143-158
JsonObject_to_string(object) ==
    LET n == Len(object.values_)
        RECURSIVE Items(_)
        Items(i) ==
            IF i > n THEN <<>>
            ELSE (IF i > 1 THEN <<COMMA, SPACE>> ELSE <<>>) \o
                 escape(object.values_[i].key) \o <<COLON, SPACE>> \o
                 to_string(object.values_[i].value) \o Items(i + 1)
    IN <<LBRACE>> \o Items(1) \o <<RBRACE>>

\* the virtual call, json_value.hpp line 57
to_string(value) ==
    CASE value.type = "Null" -> JsonNull_to_string(value)
      [] value.type = "Boolean" -> JsonBoolean_to_string(value)
      [] value.type = "Number" -> JsonNumber_to_string(value)
      [] value.type = "String" -> JsonStringValue_to_string(value)
      [] value.type = "Array" -> JsonArray_to_string(value)
      [] value.type = "Object" -> JsonObject_to_string(value)

\* the caller of serialize(v) asks v for its debug form as well
JsonValue_to_string ==
    /\ pc = "serialized" /\ ~pretty_print
    /\ text2' = to_string(v)
    /\ pc' = "printed"
    /\ UNCHANGED <<v, pretty_print, indent, text, ctxVars, stack, str_result,
                   num_str, result, exc, outVars, utfVars, strVars, apiVars>>

\* JsonSerializer::serialize(value) and serialize(value, pretty_print, indent)
Serialize ==
    /\ pc = "idle" /\ v # NoValue
    /\ \E pp \in BOOLEAN, ind \in 0..MaxIndent :
          /\ pp \/ ind = 2
          /\ pretty_print' = pp
          /\ indent' = ind
          /\ text' = serialize(v, pp, ind)
    /\ pc' = "serialized"
    /\ UNCHANGED <<v, text2, ctxVars, stack, str_result, num_str, result, exc,
                   outVars, utfVars, strVars, apiVars>>

(***************************************************************************)
(* json_parser.cpp: parse / parse_with_error, lines 329-331 and 356-358:   *)
(* a fresh ParseContext over the caller's text.                            *)
(***************************************************************************)
Begin(txt) ==
    /\ input' = txt
    /\ position' = 0
    /\ ctx_error_message' = ""
    /\ ctx_error_position' = 0
    /\ pc' = "parse_value"
    /\ UNCHANGED <<docVars, stack, str_result, num_str, result, exc, outVars,
                   utfVars, strVars, apiVars>>

\* a caller parses a text of its own
ParseText == pc = "idle" /\ v = NoValue /\ \E txt \in Texts : Begin(txt)

\* a caller parses a string literal of its own
ParseStringLiteral ==
    pc = "idle" /\ v = NoValue /\ \E txt \in StringLiterals : Begin(txt)

\* a caller parses what serialize returned
ParseSerialized == pc = "serialized" /\ Begin(text)

\* ... a prefix of it
ParseTruncated ==
    /\ pc = "serialized" /\ ~pretty_print
    /\ \E n \in 0..(Len(text) - 1) : Begin(SubSeq(text, 1, n))

\* ... it with more text after a space
ParseTrailing ==
    /\ pc = "serialized" /\ ~pretty_print
    /\ \E extra \in TrailingTexts : Begin(text \o <<SPACE>> \o extra)

\* ... it with one character inserted
ParseInserted ==
    /\ pc = "serialized" /\ ~pretty_print
    /\ \E i \in 0..Len(text), c \in InsertChars : Begin(InsertAt(text, i, c))

\* ... it with one of its commas left out
ParseCommaDropped ==
    /\ pc = "serialized" /\ ~pretty_print
    /\ \E i \in 1..Len(text) :
          /\ text[i] = COMMA
          /\ Begin(SubSeq(text, 1, i - 1) \o SubSeq(text, i + 1, Len(text)))

(***************************************************************************)
(* The parser's steps.  Goto continues, Throw raises JsonException,        *)
(* Return hands a finished value to the caller on top of the stack.        *)
(***************************************************************************)
Goto(pos, p, st, sr, ns) ==
    /\ position' = pos
    /\ pc' = p
    /\ stack' = st
    /\ str_result' = sr
    /\ num_str' = ns
    /\ UNCHANGED <<docVars, utfVars, strVars, apiVars, outVars, input, ctx_error_message,
                   ctx_error_position, result, exc>>

Raise(pos, msg, epos, e) ==
    /\ position' = pos
    /\ ctx_error_message' = msg
    /\ ctx_error_position' = epos
    /\ exc' = e
    /\ pc' = "thrown"
    /\ stack' = <<>>
    /\ str_result' = <<>>
    /\ num_str' = <<>>
    /\ UNCHANGED <<docVars, utfVars, strVars, apiVars, outVars, input, result>>

Throw(pos, msg, epos) == Raise(pos, msg, epos, [type |-> "JsonException", what |-> msg])

\* operator new fails inside std::string: nothing of the context is written
ThrowBadAlloc(pos) ==
    Raise(pos, ctx_error_message, ctx_error_position,
          [type |-> "std::bad_alloc", what |-> "std::bad_alloc"])

Top(st) == st[Len(st)]
Pop(st) == SubSeq(st, 1, Len(st) - 1)

Frame(fn, container) == [fn |-> fn, container |-> container, key |-> <<>>]

Return(st, value, pos) ==
    IF st = <<>>
    THEN /\ result' = value                      \* parse, line 333
         /\ position' = pos
         /\ pc' = "parsed"
         /\ stack' = <<>>
         /\ str_result' = <<>>
         /\ num_str' = <<>>
         /\ UNCHANGED <<docVars, utfVars, strVars, apiVars, outVars, input, ctx_error_message,
                        ctx_error_position, exc>>
    ELSE IF Top(st).fn = "parse_array"
    THEN Goto(pos, "array_next",                 \* line 230
              [st EXCEPT ![Len(st)].container = push_back(@, value)], <<>>, <<>>)
    ELSE \E slot \in Slots(Top(st).container, Top(st).key) :   \* line 264
            Goto(pos, "object_next",
                 [st EXCEPT ![Len(st)].container = set(@, Top(st).key, value, slot)],
                 <<>>, <<>>)

\* the mutant: a leading '+' is taken for the start of a number
parse_value_plus_starts_number ==
    /\ pc = "parse_value"
    /\ LET pos == skip_whitespace(input, position)
           c == peek(input, pos).c
       IN IF pos >= Len(input)
          THEN Throw(pos, "Unexpected end of input", pos)
          ELSE CASE c = QUOTE ->
                      Goto(pos, "parse_raw_string",
                           Append(stack, Frame("parse_string", NoValue)), <<>>, <<>>)
                 [] c = LBRACE -> Goto(pos, "parse_object", stack, <<>>, <<>>)
                 [] c = LBRACKET -> Goto(pos, "parse_array", stack, <<>>, <<>>)
                 [] c \in {Lc.t, Lc.f} -> Goto(pos, "parse_boolean", stack, <<>>, <<>>)
                 [] c = Lc.n -> Goto(pos, "parse_null", stack, <<>>, <<>>)
                 [] c \in {MINUS, PLUS} \/ isdigit(c) ->
                      Goto(pos, "parse_number", stack, <<>>, <<>>)
                 [] OTHER -> Throw(pos, "Unexpected character", pos)

\* lines 285-325
parse_value ==
    /\ pc = "parse_value"
    /\ LET pos == skip_whitespace(input, position)
           c == peek(input, pos).c
       IN IF pos >= Len(input)
          THEN Throw(pos, "Unexpected end of input", pos)
          ELSE CASE c = QUOTE ->
                      Goto(pos, "parse_raw_string",
                           Append(stack, Frame("parse_string", NoValue)), <<>>, <<>>)
                 [] c = LBRACE -> Goto(pos, "parse_object", stack, <<>>, <<>>)
                 [] c = LBRACKET -> Goto(pos, "parse_array", stack, <<>>, <<>>)
                 [] c \in {Lc.t, Lc.f} -> Goto(pos, "parse_boolean", stack, <<>>, <<>>)
                 [] c = Lc.n -> Goto(pos, "parse_null", stack, <<>>, <<>>)
                 [] c = MINUS \/ isdigit(c) ->
                      Goto(pos, "parse_number", stack, <<>>, <<>>)
                 [] OTHER -> Throw(pos, "Unexpected character", pos)

\* lines 50-53: parse_raw_string up to its loop
parse_raw_string ==
    /\ pc = "parse_raw_string"
    /\ LET x == expect(input, position, <<QUOTE>>)
       IN IF ~x.ok THEN Throw(x.position, expect_message(x), x.position - 1)
          ELSE Goto(x.position, "raw_string_loop", stack, <<>>, <<>>)

\* the simple escapes of lines 65-72
simple_escape(c) ==
    CASE c = QUOTE -> <<QUOTE>>
      [] c = BACKSLASH -> <<BACKSLASH>>
      [] c = SLASH -> <<SLASH>>
      [] c = Lc.b -> <<BS>>
      [] c = Lc.f -> <<FF>>
      [] c = Lc.n -> <<LF>>
      [] c = Lc.r -> <<CR>>
      [] c = Lc.t -> <<TAB>>
      [] OTHER -> <<>>

\* result += ...: the string grows, or the allocation fails
Grow(pos, added) ==
    IF Len(str_result) + Len(added) > MaxAlloc
    THEN ThrowBadAlloc(pos)
    ELSE Goto(pos, "raw_string_loop", stack, str_result \o added, <<>>)

\* lines 55-114: one iteration of parse_raw_string's while (true); the
\* closing quote returns to parse_string (lines 119-122) or to parse_object
\* (line 259)
raw_string_loop ==
    /\ pc = "raw_string_loop"
    /\ LET k1 == consume(input, position)
           k2 == consume(input, k1.position)
           h1 == consume(input, k2.position)
           h2 == consume(input, h1.position)
           h3 == consume(input, h2.position)
           h4 == consume(input, h3.position)
           code == stoi16(<<h1.c, h2.c, h3.c, h4.c>>)
       IN IF k1.c = QUOTE
          THEN IF Top(stack).fn = "parse_string"
               THEN Return(Pop(stack), JsonStringValue_create(str_result), k1.position)
               ELSE Goto(k1.position, "object_colon",
                         [stack EXCEPT ![Len(stack)].key = str_result], <<>>, <<>>)
          ELSE IF k1.c = BACKSLASH
          THEN IF k2.c = Lc.u
               THEN IF ~code.ok
                    THEN Throw(h4.position, "Invalid Unicode escape sequence",
                               h4.position - 5)
                    ELSE Grow(h4.position, encode_code_point(code.value))
               ELSE IF simple_escape(k2.c) = <<>>
               THEN Throw(k2.position, "Invalid escape sequence", k2.position - 1)
               ELSE Grow(k2.position, simple_escape(k2.c))
          ELSE Grow(k1.position, <<k1.c>>)

\* lines 124-148: the sign and the first digit
parse_number ==
    /\ pc = "parse_number"
    /\ LET p0 == peek(input, position)
           signed == p0.c \in {MINUS, PLUS}
           k0 == consume(input, p0.position)
           ns == IF signed THEN <<k0.c>> ELSE <<>>
           p1 == IF signed THEN peek(input, k0.position) ELSE p0
           k1 == consume(input, p1.position)
       IN IF p1.c = 48
          THEN Goto(peek(input, k1.position).position, "number_frac", stack, <<>>,
                    Append(ns, k1.c))
          ELSE IF isdigit(p1.c)
          THEN Goto(p1.position, "number_int", stack, <<>>, ns)
          ELSE Throw(p1.position, "Invalid number format", p1.position)

\* while (std::isdigit(peek(ctx))) num_str += consume(ctx);
DigitLoop(here, next) ==
    /\ pc = here
    /\ LET p == peek(input, position)
           k == consume(input, p.position)
       IN IF isdigit(p.c)
          THEN Goto(k.position, here, stack, <<>>, Append(num_str, k.c))
          ELSE Goto(p.position, next, stack, <<>>, num_str)

\* lines 141-143
number_int == DigitLoop("number_int", "number_frac")

\* lines 150-159
number_frac ==
    /\ pc = "number_frac"
    /\ LET p == peek(input, position)
           k == consume(input, p.position)
           p2 == peek(input, k.position)
       IN IF p.c = DOT
          THEN IF ~isdigit(p2.c)
               THEN Throw(p2.position,
                          "Invalid number format - expected digit after decimal point",
                          p2.position)
               ELSE Goto(p2.position, "number_fracdigits", stack, <<>>,
                         Append(num_str, k.c))
          ELSE Goto(p.position, "number_exp", stack, <<>>, num_str)

\* lines 160-163
number_fracdigits == DigitLoop("number_fracdigits", "number_exp")

\* lines 167-177
number_exp ==
    /\ pc = "number_exp"
    /\ LET p == peek(input, position)
           k == consume(input, p.position)
           p2 == peek(input, k.position)
           signed == p2.c \in {PLUS, MINUS}
           k2 == consume(input, p2.position)
           ns == IF signed THEN <<k.c, k2.c>> ELSE <<k.c>>
           p3 == IF signed THEN peek(input, k2.position) ELSE p2
       IN IF p.c \in {Lc.e, Lc.E}
          THEN IF ~isdigit(p3.c)
               THEN Throw(p3.position,
                          "Invalid number format - expected digit in exponent",
                          p3.position)
               ELSE Goto(p3.position, "number_expdigits", stack, <<>>, num_str \o ns)
          ELSE Goto(p.position, "number_conv", stack, <<>>, num_str)

\* lines 178-180
number_expdigits == DigitLoop("number_expdigits", "number_conv")

\* lines 183-190
number_conv ==
    /\ pc = "number_conv"
    /\ IF stod(num_str).ok
       THEN Return(stack, stod(num_str).value, position)
       ELSE Throw(position, "Invalid number format", position - Len(num_str))

\* lines 193-212
parse_boolean ==
    /\ pc = "parse_boolean"
    /\ LET c == peek(input, position)
           t == expect(input, c.position, <<Lc.t, Lc.r, Lc.u, Lc.e>>)
           f == expect(input, c.position, <<Lc.f, Lc.a, Lc.l, Lc.s, Lc.e>>)
       IN IF c.c = Lc.t
          THEN IF t.ok THEN Return(stack, JsonBoolean_create(TRUE), t.position)
               ELSE Throw(t.position, expect_message(t), t.position - 1)
          ELSE IF c.c = Lc.f
          THEN IF f.ok THEN Return(stack, JsonBoolean_create(FALSE), f.position)
               ELSE Throw(f.position, expect_message(f), f.position - 1)
          ELSE Throw(c.position, "Invalid boolean value", c.position)

\* lines 214-220
parse_null ==
    /\ pc = "parse_null"
    /\ LET x == expect(input, position, <<Lc.n, Lc.u, Lc.l, Lc.l>>)
       IN IF x.ok THEN Return(stack, JsonNull_create, x.position)
          ELSE Throw(x.position, expect_message(x), x.position - 1)

\* lines 222-229 and, for an empty array, 247-248
parse_array ==
    /\ pc = "parse_array"
    /\ LET x == expect(input, position, <<LBRACKET>>)
           p == peek(input, skip_whitespace(input, x.position))
           y == expect(input, p.position, <<RBRACKET>>)
       IN IF ~x.ok THEN Throw(x.position, expect_message(x), x.position - 1)
          ELSE IF p.c # RBRACKET
          THEN Goto(p.position, "parse_value",
                    Append(stack, Frame("parse_array", JsonArray_create)), <<>>, <<>>)
          ELSE Return(stack, JsonArray_create, y.position)

\* lines 231-248: after an element
array_next ==
    /\ pc = "array_next"
    /\ LET p == peek(input, skip_whitespace(input, position))
           k == consume(input, p.position)
           y == expect(input, p.position, <<RBRACKET>>)
       IN IF p.c = RBRACKET
          THEN Return(Pop(stack), Top(stack).container, y.position)
          ELSE IF p.c = COMMA
          THEN Goto(skip_whitespace(input, k.position), "parse_value", stack,
                    <<>>, <<>>)
          ELSE Throw(p.position, "Expected ',' or ']' in array", p.position)

\* lines 251-258 and, for an empty object, 281-282
parse_object ==
    /\ pc = "parse_object"
    /\ LET x == expect(input, position, <<LBRACE>>)
           p == peek(input, skip_whitespace(input, x.position))
           y == expect(input, p.position, <<RBRACE>>)
       IN IF ~x.ok THEN Throw(x.position, expect_message(x), x.position - 1)
          ELSE IF p.c # RBRACE
          THEN Goto(p.position, "parse_raw_string",
                    Append(stack, Frame("parse_object", JsonObject_create)),
                    <<>>, <<>>)
          ELSE Return(stack, JsonObject_create, y.position)

\* lines 260-262: between a key and its value
object_colon ==
    /\ pc = "object_colon"
    /\ LET x == expect(input, skip_whitespace(input, position), <<COLON>>)
       IN IF ~x.ok THEN Throw(x.position, expect_message(x), x.position - 1)
          ELSE Goto(skip_whitespace(input, x.position), "parse_value", stack,
                    <<>>, <<>>)

\* lines 265-282: after a member
object_next ==
    /\ pc = "object_next"
    /\ LET p == peek(input, skip_whitespace(input, position))
           k == consume(input, p.position)
           y == expect(input, p.position, <<RBRACE>>)
       IN IF p.c = RBRACE
          THEN Return(Pop(stack), Top(stack).container, y.position)
          ELSE IF p.c = COMMA
          THEN Goto(skip_whitespace(input, k.position), "parse_raw_string", stack,
                    <<>>, <<>>)
          ELSE Throw(p.position, "Expected ',' or '}' in object", p.position)

(***************************************************************************)
(* parse and parse_with_error run the same statements up to here (lines    *)
(* 329-333 and 356-360); they differ in how they return.                   *)
(***************************************************************************)
Returned(who, r, pos, msg, epos) ==
    /\ callee' = who
    /\ ret' = r
    /\ position' = pos
    /\ error_message' = msg
    /\ error_position' = epos
    /\ pc' = "returned"
    /\ exc' = NoException
    /\ UNCHANGED <<docVars, utfVars, strVars, apiVars, input, ctx_error_message, ctx_error_position,
                   stack, str_result, num_str, result>>

\* lines 336-342 and 363-370
trailing_result(pos, value) ==
    IF pos < Len(input) THEN Result_error("SyntaxError") ELSE Result_value(value)

\* parse, lines 334-342
parse_return ==
    /\ pc = "parsed"
    /\ LET pos == skip_whitespace(input, position)
       IN Returned("parse", trailing_result(pos, result), pos,
                   error_message, error_position)

\* parse, lines 343-347
parse_catch ==
    /\ pc = "thrown"
    /\ Returned("parse",
                IF exc.type = "JsonException" THEN Result_error("ParseError")
                ELSE Result_error("UnknownError"),
                position, error_message, error_position)

\* parse_with_error, lines 361-370
parse_with_error_return ==
    /\ pc = "parsed"
    /\ LET pos == skip_whitespace(input, position)
       IN IF pos < Len(input)
          THEN Returned("parse_with_error", trailing_result(pos, result), pos,
                        "Unexpected trailing characters at position " \o ToString(pos),
                        pos)
          ELSE Returned("parse_with_error", trailing_result(pos, result), pos,
                        error_message, error_position)

\* parse_with_error, lines 371-379
parse_with_error_catch ==
    /\ pc = "thrown"
    /\ IF exc.type = "JsonException"
       THEN Returned("parse_with_error", Result_error("ParseError"), position,
                     exc.what, 0)
       ELSE Returned("parse_with_error", Result_error("UnknownError"), position,
                     "Unknown error during parsing", 0)

\* the caller serializes the value it parsed out of serialize's text
Reserialize ==
    /\ pc = "returned" /\ v # NoValue /\ input = text /\ ret.has_value
    /\ text2' = serialize(ret.value, pretty_print, indent)
    /\ pc' = "reserialized"
    /\ UNCHANGED <<v, pretty_print, indent, text, ctxVars, stack, str_result,
                   num_str, result, exc, outVars, utfVars, strVars, apiVars>>

(***************************************************************************)
(* string_utils.cpp: JsonString::unescape.                                 *)
(***************************************************************************)
Unescaped(text_) == [ok |-> TRUE, value |-> text_, what |-> ""]
UnescapeThrows(type) == [ok |-> FALSE, value |-> <<>>, what |-> type]

\* lines 157-214: the while loop, from index i (0-based), result so far.
\* The switch of lines 166-174 is that of parse_raw_string, and lines 186-200
\* encode the code point as lines 84-98 of json_parser.cpp do.
RECURSIVE unescape_from(_, _, _)
unescape_from(inp, i, res) ==
    IF ~(i < Len(inp) - 1) THEN Unescaped(res)
    ELSE LET c == inp[i + 1] IN
         IF c # BACKSLASH THEN unescape_from(inp, i + 1, Append(res, c))
         ELSE IF i + 1 >= Len(inp) - 1 THEN UnescapeThrows("JsonException")
         ELSE LET next == inp[i + 2] IN
              IF simple_escape(next) # <<>>
              THEN unescape_from(inp, i + 2, res \o simple_escape(next))
              ELSE IF next # Lc.u THEN UnescapeThrows("JsonException")
              ELSE IF i + 2 + 4 > Len(inp) - 1 THEN UnescapeThrows("JsonException")
              ELSE LET code_point == stoi16(SubSeq(inp, i + 3, i + 6)) IN
                   IF ~code_point.ok THEN UnescapeThrows("JsonException")
                   ELSE unescape_from(inp, i + 6,
                                      res \o encode_code_point(code_point.value))

\* lines 148-217.  result.reserve(input.length() - 2) is asked for SIZE_MAX
\* bytes when the input is one quote, and throws std::length_error.
unescape(inp) ==
    IF inp = <<>> \/ Head(inp) # QUOTE \/ inp[Len(inp)] # QUOTE
    THEN UnescapeThrows("JsonException")
    ELSE IF Len(inp) < 2 THEN UnescapeThrows("std::length_error")
    ELSE unescape_from(inp, 1, <<>>)

PlainBytes == {0, 1, BS, LF, 31, SPACE, QUOTE, BACKSLASH, SLASH, Lc.u, 128, 255}

PlainTexts == SeqsUpTo(PlainBytes, MaxPlain)

QuotedBytes == {QUOTE, BACKSLASH, Lc.u, Lc.n, Lc.x, 49}

\* what callers hand to unescape: a text with or without a quote at each end
QuotedTexts ==
    {pre \o body \o post : pre \in {<<>>, <<QUOTE>>}, post \in {<<>>, <<QUOTE>>},
                           body \in SeqsUpTo(QuotedBytes, MaxQuoted)}

NothingEscaped == plain = <<>> /\ quoted = <<>> /\ unescaped = NotCalled

\* a caller hands the string literal it had parsed to JsonString::unescape
UnescapeParsed ==
    /\ pc = "returned" /\ v = NoValue /\ last = NoCall
    /\ input \in StringLiterals
    /\ NothingEscaped
    /\ quoted' = input
    /\ unescaped' = unescape(input)
    /\ UNCHANGED <<plain, docVars, ctxVars, runVars, outVars, utfVars, apiVars>>

(***************************************************************************)
(* json_error.hpp: Result<T>.  The caller of parse hands the Result it got *)
(* to map or and_then with a function of its own; `last` records the      *)
(* call, the Result it returned and how often the function was called.     *)
(***************************************************************************)
\* lines 56-59
operator_bool(result_) == result_.has_value

\* lines 79-85
error(result_) == IF result_.has_value THEN "Success" ELSE result_.error

\* the functions the caller passes: to map, from a value to a value
Apply(f, value) ==
    IF f = "wrap" THEN push_back(JsonArray_create, value) ELSE JsonNull_create

\* ... to and_then, from a value to a Result
Bind(f, value) ==
    IF f = "wrap" THEN Result_value(push_back(JsonArray_create, value))
    ELSE Result_error("InvalidType")

\* the mutant: the function is called whatever the Result holds
map_always(result_, f) ==
    [result |-> Result_value(Apply(f, result_.value)), called |-> 1]

\* lines 88-95
map(result_, f) ==
    IF operator_bool(result_)
    THEN [result |-> Result_value(Apply(f, result_.value)), called |-> 1]
    ELSE [result |-> Result_error(result_.error), called |-> 0]

\* lines 98-105
and_then(result_, f) ==
    IF operator_bool(result_)
    THEN [result |-> Bind(f, result_.value), called |-> 1]
    ELSE [result |-> Result_error(result_.error), called |-> 0]

Combined(call) ==
    /\ pc = "returned" /\ v = NoValue /\ last = NoCall
    /\ last' = call
    /\ UNCHANGED <<docVars, ctxVars, runVars, outVars, utfVars, strVars, nodes>>

Result_map ==
    \E f \in {"wrap", "null"} :
       Combined([fn |-> "map", f |-> f] @@ map(ret, f))

Result_and_then ==
    \E f \in {"wrap", "reject"} :
       Combined([fn |-> "and_then", f |-> f] @@ and_then(ret, f))

Init ==
    /\ v = NoValue
    /\ pretty_print = FALSE
    /\ indent = 2
    /\ text = <<>>
    /\ text2 = <<>>
    /\ input = <<>>
    /\ position = 0
    /\ ctx_error_message = ""
    /\ ctx_error_position = 0
    /\ pc = "idle"
    /\ stack = <<>>
    /\ str_result = <<>>
    /\ num_str = <<>>
    /\ result = NoValue
    /\ exc = NoException
    /\ callee = "none"
    /\ ret = NoResult
    /\ error_message = ""
    /\ error_position = 0
    /\ bytes = <<>>
    /\ valid = TRUE
    /\ plain = <<>>
    /\ quoted = <<>>
    /\ unescaped = NotCalled
    /\ nodes = <<>>
    /\ last = NoCall

Next ==
    \/ json_null
    \/ json_boolean
    \/ json_number
    \/ json_string
    \/ json_array
    \/ json_object
    \/ json_array_append
    \/ json_object_set
    \/ append_to_new_array
    \/ set_in_new_object
    \/ Serialize
    \/ ParseText
    \/ ParseSerialized
    \/ ParseTruncated
    \/ ParseTrailing
    \/ ParseInserted
    \/ ParseCommaDropped
    \/ parse_value
    \/ parse_raw_string
    \/ raw_string_loop
    \/ parse_number
    \/ number_int
    \/ number_frac
    \/ number_fracdigits
    \/ number_exp
    \/ number_expdigits
    \/ number_conv
    \/ parse_boolean
    \/ parse_null
    \/ parse_array
    \/ array_next
    \/ parse_object
    \/ object_colon
    \/ object_next
    \/ parse_return
    \/ parse_catch
    \/ parse_with_error_return
    \/ parse_with_error_catch
    \/ Reserialize
    \/ JsonValue_to_string
    \/ ParseStringLiteral
    \/ UnescapeParsed
    \/ Result_map
    \/ Result_and_then

Spec == Init /\ [][Next]_vars

(***************************************************************************)
(* validate_utf8 on its own: a caller validates a buffer it extends byte   *)
(* by byte (JsonString::is_valid_utf8, string_utils.cpp lines 115-117).    *)
(***************************************************************************)
ByteSamples == {65, 128, 143, 144, 159, 160, 191, 192, 193, 194, 224, 237, 240, 244, 245, 248}

is_valid_utf8 ==
    /\ Len(bytes) < MaxBytes
    /\ \E b \in ByteSamples :
          /\ bytes' = Append(bytes, b)
          /\ valid' = validate_utf8(Append(bytes, b))
    /\ UNCHANGED <<docVars, ctxVars, runVars, outVars, strVars, apiVars>>

Utf8Next == is_valid_utf8

SpecUtf8 == Init /\ [][Utf8Next]_vars

(***************************************************************************)
(* string_utils.cpp: escape and unescape called on their own.             *)
(***************************************************************************)
JsonString_escape ==
    /\ NothingEscaped
    /\ \E s \in PlainTexts :
          /\ plain' = s
          /\ quoted' = escape(s)
    /\ UNCHANGED <<unescaped, docVars, ctxVars, runVars, outVars, utfVars, apiVars>>

\* unescape of what escape returned
JsonString_unescape ==
    /\ quoted # <<>> /\ unescaped = NotCalled
    /\ unescaped' = unescape(quoted)
    /\ UNCHANGED <<plain, quoted, docVars, ctxVars, runVars, outVars, utfVars,
                   apiVars>>

\* unescape of a text of the caller's
JsonString_unescape_text ==
    /\ NothingEscaped
    /\ \E q \in QuotedTexts :
          /\ quoted' = q
          /\ unescaped' = unescape(q)
    /\ UNCHANGED <<plain, docVars, ctxVars, runVars, outVars, utfVars, apiVars>>

StringNext ==
    \/ JsonString_escape
    \/ JsonString_unescape
    \/ JsonString_unescape_text

SpecString == Init /\ [][StringNext]_vars

(***************************************************************************)
(* json_c_api.cpp: the C API on shared nodes.  A json_t holds a            *)
(* shared_ptr to a node; here a handle is the node's index in `nodes`, and *)
(* a container holds the indices of its children, so that one node can be  *)
(* a child of several containers and be reached through a handle as well.  *)
(***************************************************************************)
JSON_ERROR_SUCCESS == 0
JSON_ERROR_INDEX_OUT_OF_BOUNDS == 6
JSON_ERROR_INVALID_ARGUMENT == 7

nullptr == 0

\* json_value.cpp lines 139-141: values_.erase(key)
erase(object, key) ==
    IF has(object, key)
    THEN [object EXCEPT !.values_ =
              SubSeq(@, 1, IndexOf(object, key) - 1) \o
              SubSeq(@, IndexOf(object, key) + 1, Len(@))]
    ELSE object

\* json_array_insert, json_array_remove, json_array_clear and
\* json_object_clear are declared in json_c_api.hpp and called by the tests;
\* what they do to the container is taken from the specification.
array_insert(array, value, index) ==
    [array EXCEPT !.values_ = InsertAt(@, index, value)]

array_remove(array, index) ==
    [array EXCEPT !.values_ = SubSeq(@, 1, index) \o SubSeq(@, index + 2, Len(@))]

clear(container) == [container EXCEPT !.values_ = <<>>]

Handles == 1..Len(nodes)

children(node) ==
    CASE node.type = "Array" -> {node.values_[i] : i \in 1..Len(node.values_)}
      [] node.type = "Object" -> {node.values_[i].value : i \in 1..Len(node.values_)}
      [] OTHER -> {}

\* the nodes reached from handle json, itself included
RECURSIVE Reach(_, _)
Reach(heap, json) == {json} \cup UNION {Reach(heap, c) : c \in children(heap[json])}

\* lines 135-140
json_array_size(heap, json) ==
    IF heap[json].type # "Array" THEN 0 ELSE Len(heap[json].values_)

\* the mutant: the index counts from one
json_array_get_one_based(heap, json, index) ==
    IF heap[json].type # "Array" THEN nullptr
    ELSE IF index = 0 \/ index > Len(heap[json].values_) THEN nullptr
    ELSE heap[json].values_[index]

\* lines 142-155: at(index) throws outside the array, and nullptr is returned
json_array_get(heap, json, index) ==
    IF heap[json].type # "Array" THEN nullptr
    ELSE IF index >= Len(heap[json].values_) THEN nullptr
    ELSE heap[json].values_[index + 1]

\* lines 157-162
json_object_size(heap, json) ==
    IF heap[json].type # "Object" THEN 0 ELSE Len(heap[json].values_)

\* lines 164-177
json_object_get(heap, json, key) ==
    IF heap[json].type # "Object" THEN nullptr
    ELSE IF ~has(heap[json], key) THEN nullptr
    ELSE heap[json].values_[IndexOf(heap[json], key)].value

\* the tree a handle stands for, its children in place of their handles
RECURSIVE Tree(_, _)
Tree(heap, json) ==
    LET node == heap[json] IN
    CASE node.type = "Array" ->
            [node EXCEPT !.values_ = [i \in 1..Len(@) |-> Tree(heap, @[i])]]
      [] node.type = "Object" ->
            [node EXCEPT !.values_ =
                 [i \in 1..Len(@) |-> [key |-> @[i].key, value |-> Tree(heap, @[i].value)]]]
      [] OTHER -> node

\* the mutant: the text is pretty-printed
json_dumps_pretty(heap, json) == serialize(Tree(heap, json), TRUE, 2)

\* lines 253-270: json_dumps serializes compactly
json_dumps(heap, json) == serialize(Tree(heap, json), FALSE, 2)

ApiNumbers == {10, 20, 30}

Call(fn, json, value, index, key, rc) ==
    [fn |-> fn, json |-> json, value |-> value, index |-> index, key |-> key,
     ret |-> rc, before |-> nodes]

ApiFrame == UNCHANGED <<docVars, ctxVars, runVars, outVars, utfVars, strVars>>

\* The order in which a caller makes its nodes does not matter to what the
\* operations do: containers are made first, then the numbers, smallest first.
Rank(node) ==
    CASE node.type = "Array" -> 1
      [] node.type = "Object" -> 2
      [] OTHER -> 2 + node.m * Pow10(node.e)

Containers == {h \in Handles : nodes[h].type \in {"Array", "Object"}}

\* a new json_t and its node
NewNode(node) ==
    /\ last = NoCall
    /\ Len(nodes) < MaxHandles
    /\ \A h \in Handles : Rank(nodes[h]) <= Rank(node)
    /\ node.type \in {"Array", "Object"} => Cardinality(Containers) < MaxContainers
    /\ nodes' = Append(nodes, node)
    /\ last' = NoCall
    /\ ApiFrame

\* the call returns rc and leaves every node as it was
Refused(call) == last = NoCall /\ nodes' = nodes /\ last' = call /\ ApiFrame

\* the call puts node in place of the one json points to
Done(json, node, call) ==
    /\ last = NoCall
    /\ nodes' = [nodes EXCEPT ![json] = node]
    /\ last' = call
    /\ ApiFrame

\* lines 39-43; a number already made is not made again
json_number_node ==
    \E n \in ApiNumbers :
       /\ \A h \in Handles : nodes[h] # JsonNumber_create(n, 0)
       /\ NewNode(JsonNumber_create(n, 0))

\* lines 54-58
json_array_node == NewNode(JsonArray_create)

\* lines 60-64
json_object_node == NewNode(JsonObject_create)

\* lines 180-191.  A container is not put inside itself (a caller's error).
json_array_append_node ==
    \E json \in Handles :
       IF nodes[json].type # "Array"
       THEN Refused(Call("json_array_append", json, nullptr, 0, <<>>,
                         JSON_ERROR_INVALID_ARGUMENT))
       ELSE \E value \in Handles :
               /\ Len(nodes[json].values_) < MaxSize
               /\ json \notin Reach(nodes, value)
               /\ Done(json, push_back(nodes[json], value),
                       Call("json_array_append", json, value, 0, <<>>,
                            JSON_ERROR_SUCCESS))

json_array_insert ==
    \E json \in Handles :
       IF nodes[json].type # "Array"
       THEN Refused(Call("json_array_insert", json, nullptr, 0, <<>>,
                         JSON_ERROR_INVALID_ARGUMENT))
       ELSE \E index \in 0..(MaxSize + 1) :
               IF index > Len(nodes[json].values_)
               THEN Refused(Call("json_array_insert", json, nullptr, index, <<>>,
                                 JSON_ERROR_INDEX_OUT_OF_BOUNDS))
               ELSE \E value \in Handles :
                       /\ Len(nodes[json].values_) < MaxSize
                       /\ json \notin Reach(nodes, value)
                       /\ Done(json, array_insert(nodes[json], value, index),
                               Call("json_array_insert", json, value, index, <<>>,
                                    JSON_ERROR_SUCCESS))

json_array_remove ==
    \E json \in Handles :
       IF nodes[json].type # "Array"
       THEN Refused(Call("json_array_remove", json, nullptr, 0, <<>>,
                         JSON_ERROR_INVALID_ARGUMENT))
       ELSE \E index \in 0..MaxSize :
               IF index >= Len(nodes[json].values_)
               THEN Refused(Call("json_array_remove", json, nullptr, index, <<>>,
                                 JSON_ERROR_INDEX_OUT_OF_BOUNDS))
               ELSE Done(json, array_remove(nodes[json], index),
                         Call("json_array_remove", json, nullptr, index, <<>>,
                              JSON_ERROR_SUCCESS))

json_array_clear ==
    \E json \in Handles :
       IF nodes[json].type # "Array"
       THEN Refused(Call("json_array_clear", json, nullptr, 0, <<>>,
                         JSON_ERROR_INVALID_ARGUMENT))
       ELSE Done(json, clear(nodes[json]),
                 Call("json_array_clear", json, nullptr, 0, <<>>, JSON_ERROR_SUCCESS))

\* lines 194-205
json_object_set_node ==
    \E json \in Handles :
       IF nodes[json].type # "Object"
       THEN Refused(Call("json_object_set", json, nullptr, 0, <<>>,
                         JSON_ERROR_INVALID_ARGUMENT))
       ELSE \E key \in Keys, value \in Handles :
               /\ has(nodes[json], key) \/ Len(nodes[json].values_) < MaxSize
               /\ json \notin Reach(nodes, value)
               /\ \E slot \in Slots(nodes[json], key) :
                     Done(json, set(nodes[json], key, value, slot),
                          Call("json_object_set", json, value, 0, key,
                               JSON_ERROR_SUCCESS))

\* lines 207-218
json_object_del ==
    \E json \in Handles :
       IF nodes[json].type # "Object"
       THEN Refused(Call("json_object_del", json, nullptr, 0, <<>>,
                         JSON_ERROR_INVALID_ARGUMENT))
       ELSE \E key \in Keys :
               Done(json, erase(nodes[json], key),
                    Call("json_object_del", json, nullptr, 0, key, JSON_ERROR_SUCCESS))

json_object_clear ==
    \E json \in Handles :
       IF nodes[json].type # "Object"
       THEN Refused(Call("json_object_clear", json, nullptr, 0, <<>>,
                         JSON_ERROR_INVALID_ARGUMENT))
       ELSE Done(json, clear(nodes[json]),
                 Call("json_object_clear", json, nullptr, 0, <<>>, JSON_ERROR_SUCCESS))

\* the caller has looked at what the call returned and goes on
ReturnToCaller ==
    /\ last # NoCall
    /\ last' = NoCall
    /\ UNCHANGED nodes
    /\ ApiFrame

ApiNext ==
    \/ json_number_node
    \/ json_array_node
    \/ json_object_node
    \/ json_array_append_node
    \/ json_array_insert
    \/ json_array_remove
    \/ json_array_clear
    \/ json_object_set_node
    \/ json_object_del
    \/ json_object_clear
    \/ ReturnToCaller

SpecApi == Init /\ [][ApiNext]_vars

(***************************************************************************)
(* json_value.hpp, json_value.cpp: the value classes used directly.  The   *)
(* nodes live in `nodes` as above; `last` records the member function      *)
(* called last, the node it was called on, its argument and what it        *)
(* returned or threw.                                                      *)
(***************************************************************************)
Returns(x) == [throws |-> "none", value |-> x]
Throws(what) == [throws |-> "JsonException", what |-> what]

Invoked(fn, self, arg, result_) ==
    [fn |-> fn, json |-> self, arg |-> arg, result |-> result_]

\* the nodes a caller makes; it makes them all before it fills a container,
\* in this order (as for Rank, the order does not matter to what the member
\* functions do)
ValueKinds ==
    <<JsonArray_create, JsonObject_create, JsonNull_create,
      JsonBoolean_create(TRUE), JsonNumber_create(1, -13),
      JsonNumber_create(2, -13), JsonNumber_infinity,
      JsonStringValue_create(<<Lc.a>>)>>

\* the static create() functions, json_value.hpp lines 69, 86, 107, 130, 157
\* and 191
JsonValue_create ==
    \E k \in 1..Len(ValueKinds) :
       /\ last = NoCall
       /\ Len(nodes) < MaxValues
       /\ \A h \in Handles : \E j \in 1..k : nodes[h] = ValueKinds[j]
       /\ nodes' = Append(nodes, ValueKinds[k])
       /\ last' = NoCall
       /\ ApiFrame

\* The caller works on the nodes it made, and on a clone right after it has
\* made it.
Ready == (last = NoCall /\ Len(nodes) <= MaxValues) \/ last.fn = "clone"

\* the member function puts node in place of the one json points to
Mutated(json, node, call) ==
    /\ Ready
    /\ nodes' = [nodes EXCEPT ![json] = node]
    /\ last' = call
    /\ ApiFrame

\* json_value.hpp lines 166-168.  A container is not put inside itself.
JsonArray_push_back ==
    \E json \in Handles, value \in Handles :
       /\ nodes[json].type = "Array"
       /\ Len(nodes[json].values_) < MaxElems
       /\ json \notin Reach(nodes, value)
       /\ Mutated(json, push_back(nodes[json], value),
                  Invoked("push_back", json, value, Returns(nullptr)))

\* json_value.cpp lines 123-125
JsonObject_set ==
    \E json \in Handles, key \in Keys, value \in Handles :
       /\ nodes[json].type = "Object"
       /\ has(nodes[json], key) \/ Len(nodes[json].values_) < MaxElems
       /\ json \notin Reach(nodes, value)
       /\ \E slot \in Slots(nodes[json], key) :
             Mutated(json, set(nodes[json], key, value, slot),
                     Invoked("set", json, value, Returns(nullptr)))

\* json_value.cpp lines 139-141
JsonObject_erase ==
    \E json \in Handles, key \in Keys :
       /\ nodes[json].type = "Object"
       /\ Mutated(json, erase(nodes[json], key),
                  Invoked("erase", json, nullptr, Returns(nullptr)))

\* the mutant: only the node itself is made anew, its children are shared
clone_shallow(heap, json, front) ==
    [heap |-> Append(heap, heap[json]), value |-> Len(heap) + 1]

\* json_value.cpp lines 15-17, 24-26, 46-48, 68-70, 114-120 and 180-186:
\* clone() of the node json points to.  A scalar is made anew from its
\* payload; a container is made empty and given a clone of every child in
\* iteration order.  The new nodes go to the end of the heap; `front` says
\* where the new hash map puts a new key.
RECURSIVE clone(_, _, _)
clone(heap, json, front) ==
    LET node == heap[json]
        made == Len(heap) + 1
        RECURSIVE each(_, _)
        each(h, i) ==
            IF i > Len(node.values_) THEN h
            ELSE IF node.type = "Array"
            THEN LET r == clone(h, node.values_[i], front)
                 IN each([r.heap EXCEPT ![made] = push_back(@, r.value)], i + 1)
            ELSE LET r == clone(h, node.values_[i].value, front)
                 IN each([r.heap EXCEPT ![made] =
                              set(@, node.values_[i].key, r.value,
                                  IF front THEN 0 ELSE Len(@.values_))],
                         i + 1)
    IN CASE node.type = "Array" ->
               [heap |-> each(Append(heap, JsonArray_create), 1), value |-> made]
         [] node.type = "Object" ->
               [heap |-> each(Append(heap, JsonObject_create), 1), value |-> made]
         [] OTHER -> [heap |-> Append(heap, node), value |-> made]

JsonValue_clone ==
    \E json \in Handles, front \in BOOLEAN :
       LET r == clone(nodes, json, front)
       IN /\ last = NoCall
          /\ Len(nodes) <= MaxValues
          /\ Len(r.heap) <= MaxHeap
          /\ nodes' = r.heap
          /\ last' = Invoked("clone", json, nullptr, Returns(r.value))
          /\ ApiFrame

\* a member function that only looks: it returns result_ or throws
Looked(call) ==
    /\ last = NoCall
    /\ Len(nodes) <= MaxValues
    /\ nodes' = nodes
    /\ last' = call
    /\ ApiFrame

\* json_value.cpp lines 11-13, 20-22, 41-44, 64-66, 95-112 and 160-178:
\* a.equals(b)
JsonValue_equals ==
    \E a \in Handles, b \in Handles :
       Looked(Invoked("equals", a, b,
                      Returns(equals(Tree(nodes, a), Tree(nodes, b)))))

\* the mutant: the index one past the last element is let through
at_one_past(array, index) ==
    IF index > Len(array.values_) THEN Throws("Array index out of bounds")
    ELSE IF index = Len(array.values_) THEN Returns(nullptr)
    ELSE Returns(array.values_[index + 1])

\* json_value.cpp lines 73-78
at(array, index) ==
    IF index >= Len(array.values_) THEN Throws("Array index out of bounds")
    ELSE Returns(array.values_[index + 1])

\* json_value.hpp line 171
size(array) == Len(array.values_)

JsonArray_at ==
    \E json \in Handles, index \in 0..(MaxElems + 1) :
       /\ nodes[json].type = "Array"
       /\ Looked(Invoked("at", json, index, at(nodes[json], index)))

\* json_value.hpp lines 39, 73, 90, 111, 138, 161 and 195
type(node) == node.type

\* json_value.hpp lines 42-47: false in the base class, and lines 74, 91,
\* 112, 139, 162 and 196: true in the one class that overrides it
is_null(node) == node.type = "Null"
is_boolean(node) == node.type = "Boolean"
is_number(node) == node.type = "Number"
is_string(node) == node.type = "String"
is_array(node) == node.type = "Array"
is_object(node) == node.type = "Object"

\* json_value.cpp lines 189-191, overridden in json_value.hpp line 92
boolean_value(node) ==
    IF node.type = "Boolean" THEN Returns(node.value_)
    ELSE Throws("Value is not a boolean")

\* the mutant: a Boolean is taken for the number 1 or 0
number_value_of_boolean(node) ==
    IF node.type = "Number" THEN Returns([f \in DOMAIN node \ {"type"} |-> node[f]])
    ELSE IF node.type = "Boolean"
    THEN Returns([m |-> IF node.value_ THEN 1 ELSE 0, e |-> 0])
    ELSE Throws("Value is not a number")

\* json_value.cpp lines 193-195, overridden in json_value.hpp line 113
number_value(node) ==
    IF node.type = "Number" THEN Returns([f \in DOMAIN node \ {"type"} |-> node[f]])
    ELSE Throws("Value is not a number")

\* json_value.cpp lines 197-199, overridden in json_value.hpp line 140
string_value(node) ==
    IF node.type = "String" THEN Returns(node.value_)
    ELSE Throws("Value is not a string")

\* json_value.cpp lines 201-203, overridden in json_value.hpp line 163
array_value(node) ==
    IF node.type = "Array" THEN Returns(node.values_)
    ELSE Throws("Value is not an array")

\* json_value.cpp lines 205-207, overridden in json_value.hpp line 197
object_value(node) ==
    IF node.type = "Object" THEN Returns(node.values_)
    ELSE Throws("Value is not an object")

JsonValue_accessor ==
    \E json \in Handles :
       \/ Looked(Invoked("boolean_value", json, nullptr, boolean_value(nodes[json])))
       \/ Looked(Invoked("number_value", json, nullptr, number_value(nodes[json])))
       \/ Looked(Invoked("string_value", json, nullptr, string_value(nodes[json])))
       \/ Looked(Invoked("array_value", json, nullptr, array_value(nodes[json])))
       \/ Looked(Invoked("object_value", json, nullptr, object_value(nodes[json])))

ValueNext ==
    \/ JsonValue_create
    \/ JsonArray_push_back
    \/ JsonObject_set
    \/ JsonObject_erase
    \/ JsonValue_clone
    \/ JsonValue_equals
    \/ JsonArray_at
    \/ JsonValue_accessor
    \/ ReturnToCaller

SpecValue == Init /\ [][ValueNext]_vars

(***************************************************************************)
(* Properties.                                                             *)
(***************************************************************************)
RECURSIVE StringPayloads(_)
StringPayloads(x) ==
    CASE x.type = "String" -> {x.value_}
      [] x.type = "Array" ->
            UNION {StringPayloads(x.values_[i]) : i \in 1..Len(x.values_)}
      [] x.type = "Object" ->
            UNION {StringPayloads(x.values_[i].value) : i \in 1..Len(x.values_)}
      [] OTHER -> {}

\* the serialized text was parsed as it stands
ParsedOwnText == pc = "returned" /\ v # NoValue /\ input = text

\* C1: round trip: parsing the compact serialization of a built value v
\* succeeds and yields a value that equals v.
C1_RoundTrip ==
    (ParsedOwnText /\ ~pretty_print) => (ret.has_value /\ equals(ret.value, v))

\* C2: trailing content: a complete value followed by whitespace and then by
\* further non-whitespace text is never accepted; parse fails with a syntax
\* error.
C2_TrailingContentRejected ==
    (/\ pc = "returned"
     /\ v # NoValue
     /\ \E extra \in TrailingTexts : input = text \o <<SPACE>> \o extra)
    => (~ret.has_value /\ ret.error = "SyntaxError")

ParserLoops == {"raw_string_loop", "number_int", "number_fracdigits",
                "number_expdigits"}

\* C3: parse runs to completion: no loop of the parser goes round without
\* consuming input, so every iteration moves the cursor forward.
C3_LoopsConsumeInput ==
    [][(pc \in ParserLoops /\ pc' = pc) => position' > position]_vars

\* C4: every String node, built through the API or by the parser, holds
\* valid UTF-8.
C4_StringsAreValidUtf8 ==
    /\ v # NoValue => \A s \in StringPayloads(v) : validate_utf8(s)
    /\ ret.has_value => \A s \in StringPayloads(ret.value) : validate_utf8(s)

\* C5: idempotence: serializing the value parsed from serialize(v) gives
\* the text serialize(v) again.
C5_SerializeIdempotent == pc = "reserialized" => text2 = text

In(x, lo, hi) == x >= lo /\ x <= hi

\* one well-formed UTF-8 byte sequence (The Unicode Standard, table 3-7)
WellFormedSequence(q) ==
    \/ Len(q) = 1 /\ In(q[1], 0, 127)
    \/ Len(q) = 2 /\ In(q[1], 194, 223) /\ In(q[2], 128, 191)
    \/ /\ Len(q) = 3
       /\ In(q[3], 128, 191)
       /\ \/ q[1] = 224 /\ In(q[2], 160, 191)
          \/ In(q[1], 225, 236) /\ In(q[2], 128, 191)
          \/ q[1] = 237 /\ In(q[2], 128, 159)
          \/ In(q[1], 238, 239) /\ In(q[2], 128, 191)
    \/ /\ Len(q) = 4
       /\ In(q[3], 128, 191) /\ In(q[4], 128, 191)
       /\ \/ q[1] = 240 /\ In(q[2], 144, 191)
          \/ In(q[1], 241, 243) /\ In(q[2], 128, 191)
          \/ q[1] = 244 /\ In(q[2], 128, 143)

RECURSIVE WellFormedUtf8(_)
WellFormedUtf8(s) ==
    \/ s = <<>>
    \/ \E n \in 1..Min(4, Len(s)) :
          /\ WellFormedSequence(SubSeq(s, 1, n))
          /\ WellFormedUtf8(SubSeq(s, n + 1, Len(s)))

\* C6: validate_utf8 returns true exactly for the concatenations of
\* well-formed code-point encodings, and leaves everything else as it was.
C6_ValidateMatchesReference == valid = WellFormedUtf8(bytes)

\* C6 witness: an encoded surrogate (U+D800) was validated and rejected.
C6_Witness == bytes = <<237, 160, 128>> /\ ~valid

\* a text of the grammar
\* number := "-"? ("0" | [1-9] digit*) ("." digit+)? (("e"|"E") ("+"|"-")? digit+)?
IsNumberLiteral(str) ==
    LET s1 == IF str # <<>> /\ Head(str) = MINUS THEN Tail(str) ELSE str
        ip == DecRun(s1, 0, 0)
        s2 == SubSeq(s1, ip.n + 1, Len(s1))
        dotted == s2 # <<>> /\ Head(s2) = DOT
        fp == IF dotted THEN DecRun(Tail(s2), 0, 0) ELSE [value |-> 0, n |-> 0]
        s3 == IF dotted THEN SubSeq(s2, fp.n + 2, Len(s2)) ELSE s2
        expo == s3 # <<>> /\ Head(s3) \in {Lc.e, Lc.E}
        s4 == IF expo THEN Tail(s3) ELSE <<>>
        s5 == IF s4 # <<>> /\ Head(s4) \in {MINUS, PLUS} THEN Tail(s4) ELSE s4
        ep == DecRun(s5, 0, 0)
    IN /\ ip.n >= 1
       /\ ip.n > 1 => s1[1] # 48
       /\ dotted => fp.n >= 1
       /\ expo => (ep.n >= 1 /\ ep.n = Len(s5))
       /\ ~expo => s3 = <<>>

\* the index of the last character before pos that is no whitespace
RECURSIVE BackOverWhitespace(_, _)
BackOverWhitespace(inp, pos) ==
    IF pos > 0 /\ IsWhitespace(inp[pos])
    THEN BackOverWhitespace(inp, pos - 1) ELSE pos

\* the characters of the input that end where the number just read ends
NumberSpan ==
    LET q == BackOverWhitespace(input, position)
    IN SubSeq(input, q - Len(num_str) + 1, q)

\* C7: strict number grammar: a number is accepted only when its characters,
\* as they stand contiguously in the input, are a number literal.
C7_StrictNumberGrammar ==
    (pc = "number_conv" /\ stod(num_str).ok)
    => (NumberSpan = num_str /\ IsNumberLiteral(NumberSpan))

\* C8: uniform failure: a parse that yields no value returns ParseError or
\* SyntaxError, and no value with it.
C8_UniformParseFailure ==
    (pc = "returned" /\ ~ret.has_value)
    => (ret.error \in {"ParseError", "SyntaxError"} /\ ret.value = NoValue)

\* C9: error position: when parse_with_error fails, error_position is the
\* offset at which the error was detected (the one the parser recorded in its
\* context when it raised the error, or the offset of the trailing text) and
\* error_message is not empty.
C9_ErrorPositionReported ==
    (pc = "returned" /\ callee = "parse_with_error" /\ ~ret.has_value)
    => /\ error_message # ""
       /\ ret.error = "SyntaxError" => error_position = position
       /\ ret.error = "ParseError" => error_position = ctx_error_position

\* what serialize writes for each empty container inside x, x being written
\* at indentation current_indent
RECURSIVE EmptyContainerTexts(_, _)
EmptyContainerTexts(x, current_indent) ==
    CASE x.type \in {"Array", "Object"} /\ x.values_ = <<>> ->
            {serialize_value(x, pretty_print, indent, current_indent)}
      [] x.type = "Array" /\ x.values_ # <<>> ->
            UNION {EmptyContainerTexts(x.values_[i], current_indent + indent) :
                       i \in 1..Len(x.values_)}
      [] x.type = "Object" /\ x.values_ # <<>> ->
            UNION {EmptyContainerTexts(x.values_[i].value, current_indent + indent) :
                       i \in 1..Len(x.values_)}
      [] OTHER -> {}

\* C10: an empty array or object is written as [] or {} with nothing in
\* between, compact or pretty, at the top level and nested.
C10_EmptyContainersRender ==
    pc = "serialized" =>
        EmptyContainerTexts(v, 0) \subseteq {<<LBRACKET, RBRACKET>>, <<LBRACE, RBRACE>>}

\* a text between quotes in which a backslash is followed by something other
\* than " \ / b f n r t or u and four hexadecimal digits
RECURSIVE BadEscape(_)
BadEscape(body) ==
    IF body = <<>> THEN FALSE
    ELSE IF Head(body) # BACKSLASH THEN BadEscape(Tail(body))
    ELSE IF Len(body) < 2 THEN TRUE
    ELSE IF body[2] \in {QUOTE, BACKSLASH, SLASH, Lc.b, Lc.f, Lc.n, Lc.r, Lc.t}
    THEN BadEscape(SubSeq(body, 3, Len(body)))
    ELSE IF body[2] # Lc.u THEN TRUE
    ELSE IF Len(body) < 6 THEN TRUE
    ELSE IF \E k \in 3..6 : ~IsHexDigit(body[k]) THEN TRUE
    ELSE BadEscape(SubSeq(body, 7, Len(body)))

Malformed(q) ==
    \/ Len(q) < 2
    \/ Head(q) # QUOTE
    \/ q[Len(q)] # QUOTE
    \/ BadEscape(SubSeq(q, 2, Len(q) - 1))

\* C11: unescape fails with the library's syntax error (JsonException), and
\* produces no text, on every input that is not wrapped in quotes, has a
\* backslash before a character that is no escape, or has \u without four
\* hexadecimal digits right after it.
C11_UnescapeRejects ==
    (unescaped # NotCalled /\ Malformed(quoted))
    => (~unescaped.ok /\ unescaped.what = "JsonException" /\ unescaped.value = <<>>)

\* nothing between the quotes needs escaping that is not escaped
RECURSIVE NothingRaw(_)
NothingRaw(body) ==
    IF body = <<>> THEN TRUE
    ELSE IF Head(body) = BACKSLASH
    THEN Len(body) >= 2 /\ NothingRaw(SubSeq(body, 3, Len(body)))
    ELSE Head(body) # QUOTE /\ Head(body) >= 32 /\ NothingRaw(Tail(body))

\* C12: escape(s) is s between two quotes with no quote, backslash or control
\* byte left unescaped, and unescape gives s back.
C12_EscapeUnescapeInverse ==
    quoted = escape(plain) =>
        /\ Len(quoted) >= 2
        /\ Head(quoted) = QUOTE /\ quoted[Len(quoted)] = QUOTE
        /\ NothingRaw(SubSeq(quoted, 2, Len(quoted) - 1))
        /\ unescaped # NotCalled => unescaped = [ok |-> TRUE, value |-> plain, what |-> ""]

\* C12 witness: a text with a backslash, a control byte and a byte above
\* 0x7f went through escape and unescape.
C12_Witness ==
    plain = <<BACKSLASH, 31, 128>> /\ unescaped.ok /\ unescaped.value = plain

Succeeded(fn) == last.fn = fn /\ last.ret = JSON_ERROR_SUCCESS

\* the numbers an array of numbers holds, in order
NumbersOf(heap, json) ==
    [i \in 1..Len(heap[json].values_) |->
        heap[heap[json].values_[i]].m * Pow10(heap[heap[json].values_[i]].e)]

\* C13: an Object is a map with unique keys: after set or erase its size is
\* the number of keys present, has(k) holds exactly when get(k) is present,
\* set makes get return the new value and grows the size only for a new key,
\* erase makes the key absent, and every other key keeps its value.
C13_ObjectIsKeyUniqueMap ==
    (Succeeded("json_object_set") \/ Succeeded("json_object_del")) =>
        LET o == last.json
            had == has(last.before[o], last.key)
        IN /\ json_object_size(nodes, o) =
                  Cardinality({k \in Keys : has(nodes[o], k)})
           /\ \A k \in Keys :
                  has(nodes[o], k) <=> json_object_get(nodes, o, k) # nullptr
           /\ \A k \in Keys \ {last.key} :
                  json_object_get(nodes, o, k) = json_object_get(last.before, o, k)
           /\ last.fn = "json_object_set" =>
                  /\ json_object_get(nodes, o, last.key) = last.value
                  /\ json_object_size(nodes, o) =
                         json_object_size(last.before, o) + (IF had THEN 0 ELSE 1)
           /\ last.fn = "json_object_del" =>
                  /\ json_object_get(nodes, o, last.key) = nullptr
                  /\ json_object_size(nodes, o) =
                         json_object_size(last.before, o) - (IF had THEN 1 ELSE 0)

\* C13 witness: set replaced the value of a key of an object of two members.
C13_Witness ==
    /\ Succeeded("json_object_set")
    /\ json_object_size(nodes, last.json) = 2
    /\ json_object_get(last.before, last.json, last.key) \notin {nullptr, last.value}

\* C14: append puts the value after all elements; insert at index i, for
\* 0 <= i <= size, succeeds, puts the value at index i and moves the elements
\* from index i on one place to the right; the size grows by one.
C14_ArrayInsertionOrder ==
    LET a == last.json
        n == json_array_size(last.before, a)
    IN /\ Succeeded("json_array_append") =>
              /\ json_array_size(nodes, a) = n + 1
              /\ json_array_get(nodes, a, n) = last.value
              /\ \A i \in 0..(n - 1) :
                     json_array_get(nodes, a, i) = json_array_get(last.before, a, i)
       /\ (last.fn = "json_array_insert" /\ nodes[a].type = "Array" /\ last.index <= n) =>
              /\ last.ret = JSON_ERROR_SUCCESS
              /\ json_array_size(nodes, a) = n + 1
              /\ json_array_get(nodes, a, last.index) = last.value
              /\ \A i \in 0..(n - 1) :
                     json_array_get(nodes, a, IF i < last.index THEN i ELSE i + 1)
                         = json_array_get(last.before, a, i)

\* C14 witness: after append(10) and insert(20, at=0), insert(30, at=1) has
\* made the array [20, 30, 10].
C14_Witness ==
    /\ Succeeded("json_array_insert")
    /\ last.index = 1
    /\ \A i \in 1..Len(nodes[last.json].values_) :
           nodes[nodes[last.json].values_[i]].type = "Number"
    /\ NumbersOf(last.before, last.json) = <<20, 10>>
    /\ NumbersOf(nodes, last.json) = <<20, 30, 10>>

Published(heap) == UNION {children(heap[h]) : h \in 1..Len(heap)}

\* C20: a node that is the child of a container is never changed in place:
\* no step changes the contents of a published node.
C20_PublishedNodesImmutable ==
    [][\A h \in Published(nodes) : nodes'[h] = nodes[h]]_vars


\* the value a text written for x denotes: x itself, with every number as
\* its literal reads in decimal
RECURSIVE Denoted(_)
Denoted(x) ==
    CASE x.type = "Number" -> stod(serialize_number(x)).value
      [] x.type = "Array" ->
            [x EXCEPT !.values_ = [i \in 1..Len(x.values_) |-> Denoted(x.values_[i])]]
      [] x.type = "Object" ->
            [x EXCEPT !.values_ =
                [i \in 1..Len(x.values_) |->
                    [x.values_[i] EXCEPT !.value = Denoted(x.values_[i].value)]]]
      [] OTHER -> x

\* the container result holds what container x holds: the same number of
\* elements in the same order, or the same number of members with every key
\* of x mapped to the value x maps it to
Denotes(result_, x) ==
    /\ result_.type = x.type
    /\ Len(result_.values_) = Len(x.values_)
    /\ x.type = "Array" =>
          \A i \in 1..Len(x.values_) : equals(result_.values_[i], x.values_[i])
    /\ x.type = "Object" =>
          \A i \in 1..Len(x.values_) :
             /\ has(result_, x.values_[i].key)
             /\ equals(get(result_, x.values_[i].key), x.values_[i].value)

\* C17: parse builds the container the text denotes: parsing the text of an
\* object with n members under pairwise different keys yields an Object of
\* size n in which each key maps to its member's value, parsing the text of
\* an array with n elements yields an Array of size n holding the elements in
\* text order, and "{}" and "[]" yield empty containers.
C17_ParseBuildsDenotedContainer ==
    (ParsedOwnText /\ v.type \in {"Array", "Object"})
    => (ret.has_value /\ Denotes(ret.value, Denoted(v)))


\* the characters a JSON value can start with
ValueStarts == {QUOTE, LBRACE, LBRACKET, Lc.t, Lc.f, Lc.n, MINUS} \cup 48..57

\* from offset pos on, inp holds only whitespace, or its first character
\* that is no whitespace cannot start a value
RECURSIVE NoValueAhead(_, _)
NoValueAhead(inp, pos) ==
    IF pos >= Len(inp) THEN TRUE
    ELSE IF inp[pos + 1] \in {SPACE, TAB, LF, CR} THEN NoValueAhead(inp, pos + 1)
    ELSE inp[pos + 1] \notin ValueStarts

\* C18: value dispatch rejection: wherever a value is expected (top level,
\* array element, member value), if the first character that is no whitespace
\* cannot start a value, or the input has ended, the parser raises its syntax
\* exception at once, and parse then fails with a syntax-class error.
C18_ValueDispatchRejects ==
    [][/\ (pc = "parse_value" /\ NoValueAhead(input, position))
          => (pc' = "thrown" /\ exc'.type = "JsonException")
       /\ (pc = "thrown" /\ exc.type = "JsonException")
          => /\ pc' = "returned"
             /\ ~ret'.has_value
             /\ ret'.error \in {"ParseError", "SyntaxError"}]_vars

\* an 'x' where an element of an array was expected has been rejected
C18_Witness ==
    /\ pc = "returned"
    /\ ~ret.has_value
    /\ ret.error = "ParseError"
    /\ ctx_error_message = "Unexpected character"
    /\ ctx_error_position > 0
    /\ input[1] = LBRACKET
    /\ input[ctx_error_position + 1] = Lc.x


\* inp is txt with a comma put in right after an opening bracket (leading),
\* right before a closing bracket (trailing) or next to a comma (doubled)
CommaMisplaced(txt, inp) ==
    \E i \in 0..Len(txt) :
       /\ inp = InsertAt(txt, i, COMMA)
       /\ \/ i >= 1 /\ txt[i] \in {LBRACKET, LBRACE, COMMA}
          \/ i < Len(txt) /\ txt[i + 1] \in {RBRACKET, RBRACE, COMMA}

\* inp is txt without the comma between two of its elements or members
CommaMissing(txt, inp) ==
    \E i \in 1..Len(txt) :
       /\ txt[i] = COMMA
       /\ inp = SubSeq(txt, 1, i - 1) \o SubSeq(txt, i + 1, Len(txt))

\* C19: separator discipline: inside an array or object every element or
\* member is followed by ',' or the closing bracket and every ',' by another
\* element or member; a text with a trailing, leading or doubled comma, or
\* with two elements or members and no comma between them, is rejected.
C19_SeparatorsRequired ==
    (/\ pc = "returned"
     /\ v # NoValue
     /\ ~pretty_print
     /\ CommaMisplaced(text, input) \/ CommaMissing(text, input))
    => ~ret.has_value


\* every Number of tree x is a finite double
RECURSIVE AllFinite(_)
AllFinite(x) ==
    CASE x.type = "Number" -> isfinite(x)
      [] x.type = "Array" -> \A i \in 1..Len(x.values_) : AllFinite(x.values_[i])
      [] x.type = "Object" ->
            \A i \in 1..Len(x.values_) : AllFinite(x.values_[i].value)
      [] OTHER -> TRUE

\* what clone has just returned is a tree that shares no node with the graph
\* cloned
CloneIsApart ==
    last.fn = "clone" =>
       LET c == last.result.value IN
       /\ Reach(nodes, c) \cap Reach(nodes, last.json) = {}
       /\ NodeCount(Tree(nodes, c)) = Cardinality(Reach(nodes, c))

\* clone changes no node there was
CloneLeavesAll ==
    [][last'.fn = "clone" => \A h \in Handles : nodes'[h] = nodes[h]]_vars

\* push_back, set or erase on a node of the clone leaves the graph cloned as
\* it was, and the other way round
CloneIndependent ==
    [][(last.fn = "clone" /\ last'.fn \in {"push_back", "set", "erase"}) =>
          LET c == last.result.value IN
          /\ last'.json \in Reach(nodes, c)
                => Tree(nodes', last.json) = Tree(nodes, last.json)
          /\ last'.json \in Reach(nodes, last.json)
                => Tree(nodes', c) = Tree(nodes, c)]_vars

\* C21 as stated: deep clone independence: for every acyclic graph v, nodes
\* aliased into several slots included, clone(v) returns a tree c with
\* c.equals(v), sharing no node with v; clone leaves v unchanged, and a later
\* push_back, set or erase on a node of c leaves v unchanged and vice versa.
C21_CloneEqualsOriginal ==
    /\ [](last.fn = "clone" =>
             equals(Tree(nodes, last.result.value), Tree(nodes, last.json)))
    /\ []CloneIsApart
    /\ CloneLeavesAll
    /\ CloneIndependent

\* C21, amended: the same, with c.equals(v) claimed only for a graph v all of
\* whose Numbers are finite.
C21_CloneIndependence ==
    /\ [](last.fn = "clone" =>
             (AllFinite(Tree(nodes, last.json)) =>
                 equals(Tree(nodes, last.result.value), Tree(nodes, last.json))))
    /\ []CloneIsApart
    /\ CloneLeavesAll
    /\ CloneIndependent

\* an object holding one node under both keys was cloned: the clone holds two
\* nodes of its own, and an erase on the clone has left the object as it was
C21_Witness ==
    /\ last.fn = "erase"
    /\ last.json = 3
    /\ Len(nodes) = 5
    /\ nodes[1].type = "Object"
    /\ Len(nodes[1].values_) = 2
    /\ \A i \in 1..2 : nodes[1].values_[i].value = 2
    /\ nodes[3].type = "Object"
    /\ Len(nodes[3].values_) = 1
    /\ nodes[3].values_[1].value \in {4, 5}


\* the member of object x under key
MemberOf(x, key) ==
    (CHOOSE member \in {x.values_[i] : i \in 1..Len(x.values_)} :
        member.key = key).value

KeySet(x) == {x.values_[i].key : i \in 1..Len(x.values_)}

\* Two finite Numbers differ by less than 1e-12; a Number that is not finite
\* differs from none by less than anything.
Close(x, y) ==
    LET scale == Min(Min(x.e, y.e), -12)
    IN /\ isfinite(x) /\ isfinite(y)
       /\ Abs(x.m * Pow10(x.e - scale) - y.m * Pow10(y.e - scale))
             < Pow10(-12 - scale)

\* deep structural equality, as the claim words it
RECURSIVE SameValue(_, _)
SameValue(x, y) ==
    /\ x.type = y.type
    /\ CASE x.type = "Null" -> TRUE
         [] x.type = "Boolean" -> x.value_ = y.value_
         [] x.type = "Number" -> Close(x, y)
         [] x.type = "String" -> x.value_ = y.value_
         [] x.type = "Array" ->
               /\ Len(x.values_) = Len(y.values_)
               /\ \A i \in 1..Len(x.values_) : SameValue(x.values_[i], y.values_[i])
         [] x.type = "Object" ->
               /\ Cardinality(KeySet(x)) = Cardinality(KeySet(y))
               /\ \A key \in KeySet(x) :
                     /\ key \in KeySet(y)
                     /\ SameValue(MemberOf(x, key), MemberOf(y, key))

RECURSIVE HasNumber(_)
HasNumber(x) ==
    CASE x.type = "Number" -> TRUE
      [] x.type = "Array" -> \E i \in 1..Len(x.values_) : HasNumber(x.values_[i])
      [] x.type = "Object" ->
            \E i \in 1..Len(x.values_) : HasNumber(x.values_[i].value)
      [] OTHER -> FALSE

PushBackAppends ==
    [][last'.fn = "push_back" =>
          LET old == nodes[last'.json]
              new == nodes'[last'.json]
          IN /\ size(new) = size(old) + 1
             /\ at(new, size(old)) = Returns(last'.arg)
             /\ \A i \in 0..(size(old) - 1) : at(new, i) = at(old, i)]_vars

\* at, equals and clone change no node there was
LookingLeavesAll ==
    [][last'.fn \in {"at", "equals", "clone"} =>
          \A h \in Handles : nodes'[h] = nodes[h]]_vars

\* C23: array indexing: after any sequence of push_back on an Array, size is
\* the number of pushes and at(i), 0 <= i < size, returns the i-th element
\* pushed; at(i) for i >= size fails with the index-out-of-bounds exception
\* (json_array_get of the C API returns null) and leaves the array as it
\* was; operations that only read never reorder the elements.
C23_ArrayIndexing ==
    /\ PushBackAppends
    /\ LookingLeavesAll
    /\ [](last.fn = "at" =>
             /\ last.arg >= size(nodes[last.json]) <=>
                   last.result = Throws("Array index out of bounds")
             /\ last.arg >= size(nodes[last.json]) =>
                   json_array_get(nodes, last.json, last.arg) = nullptr
             /\ last.arg < size(nodes[last.json]) =>
                   /\ last.result = Returns(nodes[last.json].values_[last.arg + 1])
                   /\ json_array_get(nodes, last.json, last.arg) = last.result.value)

\* at(2) on an array of two elements has thrown
C23_Witness ==
    /\ last.fn = "at"
    /\ last.arg = 2
    /\ size(nodes[last.json]) = 2
    /\ last.result.throws = "JsonException"


\* the kinds whose is_ predicate holds of node
KindsOf(node) ==
    (IF is_null(node) THEN {"Null"} ELSE {}) \cup
    (IF is_boolean(node) THEN {"Boolean"} ELSE {}) \cup
    (IF is_number(node) THEN {"Number"} ELSE {}) \cup
    (IF is_string(node) THEN {"String"} ELSE {}) \cup
    (IF is_array(node) THEN {"Array"} ELSE {}) \cup
    (IF is_object(node) THEN {"Object"} ELSE {})

\* the kind a typed accessor belongs to
KindOfAccessor ==
    [boolean_value |-> "Boolean", number_value |-> "Number",
     string_value |-> "String", array_value |-> "Array", object_value |-> "Object"]

\* what a node of the accessor's kind holds
Payload(node) ==
    CASE node.type = "Boolean" -> node.value_
      [] node.type = "Number" -> [f \in DOMAIN node \ {"type"} |-> node[f]]
      [] node.type = "String" -> node.value_
      [] node.type \in {"Array", "Object"} -> node.values_

\* C24: single fixed kind: of every node exactly one of is_null, is_boolean,
\* is_number, is_string, is_array, is_object holds, the one matching type(),
\* and no operation changes it; the typed accessor of the node's kind yields
\* its payload and every other typed accessor fails with the wrong-type
\* exception.
C24_SingleFixedKind ==
    /\ [](\A h \in Handles : KindsOf(nodes[h]) = {type(nodes[h])})
    /\ [][\A h \in Handles : type(nodes'[h]) = type(nodes[h])]_vars
    /\ [](last.fn \in DOMAIN KindOfAccessor =>
             IF KindOfAccessor[last.fn] = type(nodes[last.json])
             THEN last.result = Returns(Payload(nodes[last.json]))
             ELSE last.result.throws = "JsonException")

\* number_value() on a Boolean has thrown
C24_Witness ==
    /\ last.fn = "number_value"
    /\ type(nodes[last.json]) = "Boolean"
    /\ last.result = Throws("Value is not a number")


\* r holds a value and no error kind, or an error kind and no value
HoldsOne(r) ==
    \/ operator_bool(r) /\ r.value # NoValue /\ error(r) = "Success"
    \/ ~operator_bool(r) /\ r.value = NoValue /\ error(r) \notin {"Success", "none"}

\* C25: Result exclusivity and propagation: a Result holds a value or one
\* error kind, never both and never neither, and operator bool tells which;
\* map(f) and and_then(f) on a Result holding an error return a Result
\* holding the same error kind without calling f, and on a Result holding a
\* value they return f's outcome.
C25_ResultHoldsOne ==
    /\ pc = "returned" => HoldsOne(ret)
    /\ last.fn \in {"map", "and_then"} =>
          /\ HoldsOne(last.result)
          /\ IF operator_bool(ret)
             THEN /\ last.called = 1
                  /\ last.fn = "map" =>
                        last.result = Result_value(Apply(last.f, ret.value))
                  /\ last.fn = "and_then" => last.result = Bind(last.f, ret.value)
             ELSE /\ last.called = 0
                  /\ ~operator_bool(last.result)
                  /\ error(last.result) = error(ret)

\* map was given a Result holding ParseError and returned that error
C25_Witness ==
    /\ last.fn = "map"
    /\ ~operator_bool(ret)
    /\ error(ret) = "ParseError"
    /\ error(last.result) = "ParseError"


\* a container with at least one element or member
NonEmptyContainer(value) ==
    value.type \in {"Array", "Object"} /\ Len(value.values_) > 0

\* the layout of the claim, by nesting depth: a non-empty container at depth
\* d is its opening bracket, a newline, its members each after (d+1)*w
\* spaces and separated by a comma and a newline, a newline, d*w spaces and
\* its closing bracket; an object member is its key, " : " and its value.
\* Scalars and empty containers are as the serializer renders them.
RECURSIVE Layout(_, _, _)
Layout(value, d, w) ==
    IF ~NonEmptyContainer(value)
    THEN serialize_value(value, TRUE, w, d * w)
    ELSE LET n == Len(value.values_)
             isArray == value.type = "Array"
             Member(i) ==
                 IF isArray THEN Layout(value.values_[i], d + 1, w)
                 ELSE escape(value.values_[i].key) \o <<SPACE, COLON, SPACE>> \o
                      Layout(value.values_[i].value, d + 1, w)
             RECURSIVE Lines(_)
             Lines(i) ==
                 IF i > n THEN <<>>
                 ELSE Repeat(SPACE, (d + 1) * w) \o Member(i) \o
                      (IF i < n THEN <<COMMA, LF>> ELSE <<>>) \o Lines(i + 1)
         IN <<IF isArray THEN LBRACKET ELSE LBRACE>> \o <<LF>> \o Lines(1) \o
            <<LF>> \o Repeat(SPACE, d * w) \o
            <<IF isArray THEN RBRACKET ELSE RBRACE>>

\* C26: pretty-print layout: in pretty mode with indent width w, every
\* non-empty container at nesting depth d has a newline right after its
\* opening bracket, each member on its own line after exactly (d+1)*w spaces,
\* members separated by a comma and a newline, and its closing bracket on its
\* own line after exactly d*w spaces.
C26_PrettyLayout ==
    (pc = "serialized" /\ pretty_print) =>
        /\ text = Layout(v, 0, indent)
        \* and the same tree as the serializer renders it below the root
        /\ \A d \in 1..MaxDepth :
              serialize_value(v, TRUE, indent, d * indent) = Layout(v, d, indent)

\* a non-empty container inside a non-empty container, printed with the
\* widest indent
C26_Witness ==
    /\ pc = "serialized" /\ pretty_print /\ indent = MaxIndent
    /\ NonEmptyContainer(v)
    /\ \E i \in 1..Len(v.values_) :
          NonEmptyContainer(IF v.type = "Array" THEN v.values_[i]
                            ELSE v.values_[i].value)
    /\ text = Layout(v, 0, indent)


\* s without its space, tab, LF and CR characters
WithoutWhitespace(s) == SelectSeq(s, LAMBDA c : ~IsWhitespace(c))

\* what stands between the quotes of a literal
Body(txt) == SubSeq(txt, 2, Len(txt) - 1)

\* txt is one string literal without escapes
IsPlainLiteral(txt) ==
    /\ Len(txt) >= 2 /\ txt[1] = QUOTE /\ txt[Len(txt)] = QUOTE
    /\ \A i \in 2..(Len(txt) - 1) : txt[i] \notin {QUOTE, BACKSLASH}

KeysOf(object) == {object.values_[i].key : i \in 1..Len(object.values_)}

\* C27: whitespace inside string literals is not kept: the unescaped space,
\* tab, LF and CR characters between the quotes of a string literal are
\* skipped and appear neither in the String value parsed nor in an object
\* key, so "User 0" parses to the String User0.
C27_WhitespaceInLiteralsDropped ==
    /\ (/\ pc = "returned"
        /\ IsPlainLiteral(input)
        /\ Len(WithoutWhitespace(Body(input))) <= MaxAlloc)
       => ret = Result_value(JsonStringValue_create(WithoutWhitespace(Body(input))))
    /\ (/\ pc = "returned" /\ v # NoValue /\ input = text
        /\ v.type = "Object" /\ ret.has_value)
       => KeysOf(ret.value) = {WithoutWhitespace(key) : key \in KeysOf(v)}

\* "User 0" was parsed to User0
C27_Witness ==
    /\ pc = "returned"
    /\ input = <<QUOTE, 85, 115, 101, 114, SPACE, 48, QUOTE>>
    /\ ret = Result_value(JsonStringValue_create(<<85, 115, 101, 114, 48>>))

\* the UTF-8 encoding of a code point of the basic plane, by range
Utf8(c) ==
    IF c <= 127 THEN <<c>>
    ELSE IF c <= 2047 THEN <<192 + (c \div 64), 128 + (c % 64)>>
    ELSE <<224 + (c \div 4096), 128 + ((c \div 64) % 64), 128 + (c % 64)>>

\* txt is a string literal made of \uXXXX escapes with four hex digits each
IsEscapeLiteral(txt) ==
    /\ Len(txt) > 2 /\ (Len(txt) - 2) % 6 = 0
    /\ txt[1] = QUOTE /\ txt[Len(txt)] = QUOTE
    /\ \A k \in 0..((Len(txt) - 2) \div 6 - 1) :
          /\ txt[6 * k + 2] = BACKSLASH
          /\ txt[6 * k + 3] = Lc.u
          /\ \A i \in 4..7 : IsHexDigit(txt[6 * k + i])

\* the code point its k-th escape denotes, k from 0
Denotation(txt, k) ==
    4096 * HexValue(txt[6 * k + 4]) + 256 * HexValue(txt[6 * k + 5])
    + 16 * HexValue(txt[6 * k + 6]) + HexValue(txt[6 * k + 7])

\* each escape replaced by the encoding of its code point
RECURSIVE DecodedFrom(_, _)
DecodedFrom(txt, k) ==
    IF 6 * k + 2 >= Len(txt) THEN <<>>
    ELSE Utf8(Denotation(txt, k)) \o DecodedFrom(txt, k + 1)

\* C28: unicode escape decoding: in JsonString::unescape and in the parser's
\* string branch a \uXXXX escape with four hex digits denoting code point c
\* is replaced by the UTF-8 encoding of c chosen by range (1 byte up to 0x7F,
\* 2 up to 0x7FF, 3 up to 0xFFFF), each escape on its own: the halves of a
\* surrogate pair each yield their own 3-byte sequence, and both
\* implementations produce the same bytes.
C28_UnicodeEscapeDecoding ==
    /\ (/\ pc = "returned" /\ IsEscapeLiteral(input)
        /\ Len(DecodedFrom(input, 0)) <= MaxAlloc)
       => ret = Result_value(JsonStringValue_create(DecodedFrom(input, 0)))
    /\ (unescaped # NotCalled /\ IsEscapeLiteral(quoted))
       => unescaped = Unescaped(DecodedFrom(quoted, 0))
    /\ (/\ pc = "returned" /\ unescaped # NotCalled /\ quoted = input
        /\ IsEscapeLiteral(input) /\ ret.has_value)
       => unescaped.ok /\ unescaped.value = ret.value.value_

\* the surrogate pair of U+1F600, parsed and unescaped: two 3-byte sequences
C28_Witness ==
    /\ pc = "returned"
    /\ input = <<QUOTE>> \o EscapeOf(55357, FALSE) \o EscapeOf(56832, TRUE) \o <<QUOTE>>
    /\ quoted = input
    /\ ret = Result_value(JsonStringValue_create(<<237, 160, 189, 237, 184, 128>>))
    /\ unescaped = Unescaped(<<237, 160, 189, 237, 184, 128>>)


\* the characters of inp after position from, up to position to, are whitespace
WhitespaceBetween(inp, from, to) ==
    \A i \in (from + 1)..to : IsWhitespace(inp[i])

\* peek from pos stops before the first character that is not whitespace, or
\* at the end, and returns that character, or NUL
PeekStopsBefore(inp, pos) ==
    LET r == peek(inp, pos)
    IN /\ r.position \in pos..Len(inp)
       /\ WhitespaceBetween(inp, pos, r.position)
       /\ IF r.position = Len(inp) THEN r.c = NUL
          ELSE ~IsWhitespace(inp[r.position + 1]) /\ r.c = inp[r.position + 1]

\* consume from pos stops after the first character that is not whitespace
\* and returns it, or stops at the end and returns NUL
ConsumeTakesOne(inp, pos) ==
    LET r == consume(inp, pos)
    IN \/ /\ r.position \in (pos + 1)..Len(inp)
          /\ WhitespaceBetween(inp, pos, r.position - 1)
          /\ ~IsWhitespace(inp[r.position])
          /\ r.c = inp[r.position]
       \/ /\ r.position = Len(inp)
          /\ WhitespaceBetween(inp, pos, Len(inp))
          /\ r.c = NUL

CursorInRange ==
    /\ position \in 0..Len(input)
    /\ \A pos \in position..Len(input) :
          PeekStopsBefore(input, pos) /\ ConsumeTakesOne(input, pos)

\* a parse begins at 0; within a parse the cursor does not go back
CursorForward ==
    IF pc' = "parse_value" /\ pc \in {"idle", "serialized"}
    THEN position' = 0
    ELSE position' >= position

\* C29: parser cursor discipline: during any parse the cursor starts at 0,
\* never decreases and never exceeds the input length; peek advances it only
\* over whitespace and never past a character that is not whitespace, and
\* consume advances it past exactly one such character or leaves it at the
\* end of the input.
C29_CursorDiscipline == []CursorInRange /\ [][CursorForward]_vars

\* in the middle of a parse, before whitespace that peek would skip, with
\* whitespace only up to the end
C29_Witness ==
    /\ pc \notin {"idle", "serialized", "returned", "reserialized"}
    /\ position > 0 /\ position < Len(input)
    /\ peek(input, position).position = Len(input)
    /\ consume(input, position).c = NUL


\* C30: the debug form equals the compact serialization: for every Value
\* tree v, v.to_string() is the text JsonSerializer::serialize(v, false)
\* returns: the same literals, number rendering, escaped strings and the
\* same ", " and ": " separators.
C30_ToStringIsCompactSerialize ==
    pc = "printed" => text2 = text /\ text = serialize(v, FALSE, indent)

\* an object holding an array of two was printed both ways
C30_Witness ==
    /\ pc = "printed"
    /\ v.type = "Object" /\ Len(v.values_) = 1
    /\ v.values_[1].value.type = "Array" /\ Len(v.values_[1].value.values_) = 1
    /\ text2 = text

====
